---- MODULE Spec2Model ----
(***************************************************************************)
(* The chunking engine of src/chunking.py (fixed_size_chunking,            *)
(* h1_heading_based_chunking, h2_heading_based_chunking, get_html_chunks)  *)
(* and the per-file pipeline of src/batchProcessor.py (process_single_file,*)
(* clean_chunk_text, apply_quality_filters), the batch of process_batch    *)
(* with src/storageClient.py, and the endpoints of src/app.py.             *)
(*                                                                         *)
(* Specifications.  Spec and SpecH2 run the chunking strategies on a       *)
(* Markdown document; SpecClean calls clean_chunk_text repeatedly on a     *)
(* text; SpecFilter runs the quality filter on a chunk list; SpecFile runs *)
(* process_single_file, and get_html_chunks on its own, from the bytes of  *)
(* a file to the uploaded artifacts; SpecFolder runs the destination check *)
(* and generate_new_folder_name; SpecBatch runs process_batch with its     *)
(* pool of process_single_file invocations, the uploads, the manifest, the *)
(* analysis and the manifest upload; SpecApp runs the endpoints of         *)
(* src/app.py, POST /process_batch and GET /failure_logs.                  *)
(*                                                                         *)
(* Text.  A text is a sequence of units.  A unit is a stretch of text that *)
(* the tokenizer measures as a whole: a body line of 5 or of 50 tokens     *)
(* ("w5", "w50"), a heading marker ("#", "##"), a heading label ("A",      *)
(* "B"), the continuation marker " (continued)", and the white space the   *)
(* code inserts or strips: "nn" for a blank line ("\n\n"), "n" for the     *)
(* line join of the heading splitter, "sp" for a line that holds only a    *)
(* space.  "zw" is a raw line made of a space between zero-width           *)
(* characters: str.strip() keeps it, the heading splitter's printable      *)
(* filter turns it into "sp".  count_tokens is the sum of the units'       *)
(* token counts, so that joining two texts with a blank line costs the     *)
(* blank line's token.                                                     *)
(*                                                                         *)
(* The two library splitters are modelled by what they do as the source    *)
(* configures them: HeaderSplit follows MarkdownHeaderTextSplitter         *)
(* (strip_headers, aggregation of neighbours with equal metadata);         *)
(* SplitText is every piece list RecursiveCharacterTextSplitter may        *)
(* return: stripped non-empty pieces that cover the text in order, cut at  *)
(* white space, each within the size unless it is one uncuttable line,     *)
(* neighbours sharing at most chunk_overlap tokens.                        *)
(*                                                                         *)
(* The quality filter works on characters: there a text is a sequence of   *)
(* characters, a printable ASCII character standing for itself and any     *)
(* other one written by its code point ("U+200B"); ChunkChars carries a    *)
(* text of units over.  File contents are bytes 0..255, decoded strings    *)
(* are sequences of code points.                                           *)
(***************************************************************************)
EXTENDS Integers, Sequences, FiniteSets, TLC

VARIABLES
    strategy,          \* chunking_strategy
    markdown_content,  \* the Markdown document, as a sequence of blocks
    chunk_size,
    chunk_overlap,
    pc,                \* position in get_html_chunks: "call", "start", "section",
                       \* "scan", "done", "error", "decode_error", "returned"
    documents,         \* the sections the heading splitter returned
    d,                 \* index of the section the for-loop is at (1-based)
    sub_chunks,        \* the working list of the overflow branch
    i,                 \* enumerate index over sub_chunks (0-based, as in the code)
    chunks,            \* the chunk list being built / returned
    origin,            \* history: origin[k] = section that chunks[k] came from
    splits,            \* history: splits[s] = pieces the splitter returned for section s
    merges,            \* history: merges[s] = merges done in section s
    options,           \* BatchProcessor.options (the chunking_strategy entry)
    blob,              \* the bytes of the source file in storage
    html_bytes,        \* what read_file returned
    html_doc,          \* the document dictionary handed to get_html_chunks
    decoded_html,      \* process_single_file's own decoding, for the metadata
    html_content,      \* what get_html_content returned
    processing_stage,  \* process_single_file's stage
    result,            \* the dictionary process_single_file returned
    chunks_list,       \* get_html_chunks' positioned chunks
    filtered_chunks,   \* what apply_quality_filters returned
    artifacts,         \* what generate_artifact returned
    uploaded,          \* the artifacts write_files has uploaded
    cleanings,         \* a text and the results of successive clean_chunk_text calls
    container,         \* the blobs of the destination container
    destination_path,  \* destination_config["path"]
    counter,           \* generate_new_folder_name's counter
    probes,            \* history: the answers of its folder_exists calls
    manifest_file,     \* the lines of ./manifests/<batch_id>/manifest.jsonl
    batch_pc,          \* position in BatchProcessor.process_batch
    file_paths,        \* what list_files returned
    frames,            \* the process_single_file invocations of the pool
    results,           \* what process_batch returned
    analyses,          \* history: the manifest as each trigger_analysis call loaded it
    latest_failure_summary,  \* app.py's module-level dictionary
    response,          \* the last HTTP response
    batches,           \* history: the POST /process_batch requests answered
    now                \* datetime.now(), in seconds

\* the variables of batchProcessor.py and of the tail of get_html_chunks
filevars == <<options, blob, html_bytes, html_doc, decoded_html, html_content,
              processing_stage, result, chunks_list, filtered_chunks, artifacts,
              uploaded, cleanings>>

\* the variables of process_batch, of the storage and of app.py
batchvars == <<container, destination_path, counter, probes, manifest_file,
               batch_pc, file_paths, frames, results, analyses,
               latest_failure_summary, response, batches, now>>

vars == <<strategy, markdown_content, chunk_size, chunk_overlap, pc, documents,
          d, sub_chunks, i, chunks, origin, splits, merges, filevars, batchvars>>

----------------------------------------------------------------------------

(* Bounds and program constants *)

MaxBlocks == 4

threshold == 50

H2Reserve == 50

CHUNKING_STRATEGY_FIXED == "fixed_size"

CHUNKING_STRATEGY_H1_BASED == "h1_heading_based"

CHUNKING_STRATEGY_H2_BASED == "h2_heading_based"

Strategies ==
    {CHUNKING_STRATEGY_FIXED, CHUNKING_STRATEGY_H1_BASED, CHUNKING_STRATEGY_H2_BASED}

ChunkSizes == {4, 60}

ChunkOverlaps == {0, 5}

----------------------------------------------------------------------------

(* Text, tokens, strip *)

Whitespace == {"n", "nn", "sp"}

Weight(u) ==
    CASE u = "w5" -> 5
      [] u = "w50" -> 50
      [] u = "(continued)" -> 2
      [] OTHER -> 1

RECURSIVE count_tokens(_)
count_tokens(text) ==
    IF text = <<>> THEN 0 ELSE Weight(Head(text)) + count_tokens(Tail(text))

RECURSIVE lstrip(_)
lstrip(t) ==
    IF t # <<>> /\ Head(t) \in Whitespace THEN lstrip(Tail(t)) ELSE t

RECURSIVE rstrip(_)
rstrip(t) ==
    IF t # <<>> /\ t[Len(t)] \in Whitespace
    THEN rstrip(SubSeq(t, 1, Len(t) - 1))
    ELSE t

strip(t) == rstrip(lstrip(t))

ContinuedMark == <<"(continued)", "nn">>

BlankLine == <<"nn">>

----------------------------------------------------------------------------

(* The Markdown document *)

Absent == "<absent>"

Blocks ==
    [kind : {"h1"}, v : {"A", ""}] \cup [kind : {"h2"}, v : {"B"}]
        \cup [kind : {"text"}, v : {"w5", "w50", "zw"}]

Docs == UNION {[1..n -> Blocks] : n \in 0..MaxBlocks}

\* the raw line of a block: "# A", "#", "## B", or a body line
Line(b) ==
    CASE b.kind = "h1" -> IF b.v = "" THEN <<"#">> ELSE <<"#", b.v>>
      [] b.kind = "h2" -> IF b.v = "" THEN <<"##">> ELSE <<"##", b.v>>
      [] OTHER -> <<b.v>>

\* the raw Markdown text: the blocks' lines, a blank line between blocks
RECURSIVE MarkdownText(_)
MarkdownText(md) ==
    IF md = <<>> THEN <<>>
    ELSE IF Len(md) = 1 THEN Line(md[1])
    ELSE Line(md[1]) \o BlankLine \o MarkdownText(Tail(md))

----------------------------------------------------------------------------

(* Heading splitter: MarkdownHeaderTextSplitter(headers_to_split_on).      *)
(* levels is the set of block kinds split on.  A heading of a level split  *)
(* on sets the metadata (a level-1 heading clears the level-2 entry) and   *)
(* is stripped from the content; any other line is content, after the      *)
(* printable filter.  A heading with no content under it yields nothing.   *)

PrintableLine(b) == IF b.kind = "text" /\ b.v = "zw" THEN <<"sp">> ELSE Line(b)

RECURSIVE LinesWithMetadata(_, _, _, _, _)
LinesWithMetadata(md, k, h1, h2, levels) ==
    IF k > Len(md) THEN <<>>
    ELSE IF md[k].kind \in levels
    THEN IF md[k].kind = "h1"
         THEN LinesWithMetadata(md, k + 1, md[k].v, Absent, levels)
         ELSE LinesWithMetadata(md, k + 1, h1, md[k].v, levels)
    ELSE <<[page_content |-> PrintableLine(md[k]), H1 |-> h1, H2 |-> h2]>>
             \o LinesWithMetadata(md, k + 1, h1, h2, levels)

\* aggregate_lines_to_chunks: neighbours with equal metadata are joined
RECURSIVE AggregateLines(_, _)
AggregateLines(lines, acc) ==
    IF lines = <<>> THEN acc
    ELSE LET l == Head(lines)
             n == Len(acc)
         IN  IF n > 0 /\ acc[n].H1 = l.H1 /\ acc[n].H2 = l.H2
             THEN AggregateLines(Tail(lines),
                      [acc EXCEPT ![n].page_content = @ \o <<"n">> \o l.page_content])
             ELSE AggregateLines(Tail(lines), Append(acc, l))

HeaderSplit(md, levels) ==
    AggregateLines(LinesWithMetadata(md, 1, Absent, Absent, levels), <<>>)

\* metadata.get(key): truthy only for a present, non-empty label
Truthy(label) == label # Absent /\ label # ""

\* faulty variant: any section at all counts as a meaningful split
HasMeaningfulSplits_AnySection(docs, key) == Len(docs) >= 1

\* "has meaningful splits" of h1_heading_based_chunking
HasMeaningfulSplits(docs, key) ==
    Len(docs) > 1 \/ (Len(docs) = 1 /\ Truthy(docs[1][key]))

----------------------------------------------------------------------------

(* Recursive text splitter: RecursiveCharacterTextSplitter                 *)
(*   .from_tiktoken_encoder(chunk_size, chunk_overlap).split_text(text)    *)

\* the constructor raises ValueError
SplitterRejects(size, overlap) == size <= 0 \/ overlap > size

\* the maximal runs of non-white-space units of a text, as <<first, last>>
RECURSIVE RunsFrom(_, _, _)
RunsFrom(text, k, start) ==
    IF k > Len(text)
    THEN IF start = 0 THEN <<>> ELSE <<<<start, Len(text)>>>>
    ELSE IF text[k] \in Whitespace
    THEN IF start = 0 THEN RunsFrom(text, k + 1, 0)
         ELSE <<<<start, k - 1>>>> \o RunsFrom(text, k + 1, 0)
    ELSE RunsFrom(text, k + 1, IF start = 0 THEN k ELSE start)

Runs(text) == RunsFrom(text, 1, 0)

PieceOf(text, rs, s, e) == SubSeq(text, rs[s][1], rs[e][2])

\* the piece lists whose first piece starts at run s and ends after run prevE
RECURSIVE PiecesFrom(_, _, _, _, _, _)
PiecesFrom(text, rs, s, prevE, size, overlap) ==
    LET lo == IF s > prevE THEN s ELSE prevE + 1
        Ends == {e \in lo..Len(rs) :
                    e = s \/ count_tokens(PieceOf(text, rs, s, e)) <= size}
        Starts(e) == {s2 \in (s + 1)..(e + 1) :
                    s2 = e + 1 \/ count_tokens(PieceOf(text, rs, s2, e)) <= overlap}
    IN  UNION {
            IF e = Len(rs)
            THEN {<<PieceOf(text, rs, s, e)>>}
            ELSE UNION {
                    {<<PieceOf(text, rs, s, e)>> \o rest :
                        rest \in PiecesFrom(text, rs, s2, e, size, overlap)}
                    : s2 \in Starts(e)}
            : e \in Ends}

SplitText(text, size, overlap) ==
    IF Runs(text) = <<>> THEN {<<>>}
    ELSE PiecesFrom(text, Runs(text), 1, 0, size, overlap)

----------------------------------------------------------------------------

(* Helpers of the three strategies *)

RECURSIVE FilterNonEmpty(_)
FilterNonEmpty(ts) ==
    IF ts = <<>> THEN <<>>
    ELSE IF Head(ts) # <<>> /\ strip(Head(ts)) # <<>>
    THEN <<Head(ts)>> \o FilterNonEmpty(Tail(ts))
    ELSE FilterNonEmpty(Tail(ts))

\* fixed_size_chunking, given the pieces split_text returned
FixedChunks(split_texts) ==
    LET kept == FilterNonEmpty(split_texts)
    IN  [k \in 1..Len(kept) |-> [text |-> strip(kept[k]), heading |-> ""]]

\* every chunk list fixed_size_chunking may return
FixedSizeResults(md, size, overlap) ==
    {FixedChunks(ps) : ps \in SplitText(MarkdownText(md), size, overlap)}

\* h1_heading_based_chunking: heading and heading line of a section
H1Heading(doc) ==
    IF Truthy(doc.H1) THEN doc.H1
    ELSE IF Truthy(doc.H2) THEN doc.H2
    ELSE ""

\* faulty variant: the heading line is rendered at level 1 whatever level supplied it
H1HeadingLine_AlwaysLevel1(doc) ==
    IF Truthy(doc.H1) THEN <<"#", doc.H1>>
    ELSE IF Truthy(doc.H2) THEN <<"#", doc.H2>>
    ELSE <<>>

H1HeadingLine(doc) ==
    IF Truthy(doc.H1) THEN <<"#", doc.H1>>
    ELSE IF Truthy(doc.H2) THEN <<"##", doc.H2>>
    ELSE <<>>

\* faulty variant: the level-1 heading wins over the level-2 heading
H2Heading_PrefersH1(doc) ==
    IF Truthy(doc.H1) THEN doc.H1
    ELSE IF Truthy(doc.H2) THEN doc.H2
    ELSE "None"

\* h2_heading_based_chunking: the most specific heading, None when there is none
H2Heading(doc) ==
    IF Truthy(doc.H2) THEN doc.H2
    ELSE IF Truthy(doc.H1) THEN doc.H1
    ELSE "None"

H2HeadingLine(doc) ==
    IF H2Heading(doc) # "None" THEN <<"##", H2Heading(doc)>> ELSE <<>>

Heading(doc) ==
    IF strategy = CHUNKING_STRATEGY_H2_BASED THEN H2Heading(doc) ELSE H1Heading(doc)

HeadingLine(doc) ==
    IF strategy = CHUNKING_STRATEGY_H2_BASED THEN H2HeadingLine(doc) ELSE H1HeadingLine(doc)

SectionText(doc) == strip(doc.page_content)

\* faulty variant: the heading line is not prepended to a section that fits
FullContent_NoHeadingLine(heading_line, section_text) == section_text

FullContent(heading_line, section_text) ==
    IF heading_line # <<>> THEN heading_line \o BlankLine \o section_text
    ELSE section_text

\* tokens of "<heading_line> (continued)\n\n", or of "(continued)\n\n"
ContinuationOverhead(heading_line) ==
    IF heading_line # <<>> THEN count_tokens(heading_line \o ContinuedMark)
    ELSE count_tokens(ContinuedMark)

\* the size handed to the splitter in the overflow branch
H1AvailableSize(heading_line) == chunk_size - ContinuationOverhead(heading_line)

\* faulty variant: the budget of the H2 strategy without the reserve
H2AvailableSize_NoReserve(heading_line) == chunk_size - count_tokens(heading_line)

H2AvailableSize(heading_line) == chunk_size - count_tokens(heading_line) - H2Reserve

\* faulty variant: the merge test without the threshold on the next piece
MergeCondition_NoThreshold(subs, idx, overhead) ==
    /\ idx < Len(subs) - 1
    /\ count_tokens(strip(subs[idx + 1])) + count_tokens(subs[idx + 2]) + overhead
           <= chunk_size

\* the "smart thresholding" test of the H1 loop, at index idx (0-based)
MergeCondition(subs, idx, overhead) ==
    /\ idx < Len(subs) - 1
    /\ count_tokens(strip(subs[idx + 1])) + count_tokens(subs[idx + 2]) + overhead
           <= chunk_size
    /\ count_tokens(subs[idx + 2]) < threshold

\* faulty variant: the merge overwrites the next piece with itself, losing the current one
MergedContent_DropsCurrent(subs, idx) == strip(subs[idx + 2])

MergedContent(subs, idx) ==
    strip(subs[idx + 1]) \o BlankLine \o strip(subs[idx + 2])

\* combined_text of the chunk emitted at index idx
CombinedText(heading_line, sub_chunk, idx) ==
    IF idx = 0
    THEN (IF heading_line # <<>> THEN heading_line \o BlankLine \o sub_chunk
          ELSE sub_chunk)
    ELSE (IF heading_line # <<>> THEN heading_line \o ContinuedMark \o sub_chunk
          ELSE ContinuedMark \o sub_chunk)

----------------------------------------------------------------------------

(* Characters.  The quality filter of src/batchProcessor.py works on the   *)
(* characters of a chunk text: here a text is a sequence of characters, a  *)
(* printable ASCII character standing for itself and any other named by    *)
(* its code point.                                                         *)

TAB == "U+0009"

LF == "U+000A"

SOH == "U+0001"

EACUTE == "U+00E9"

ZWSP == "U+200B"

BACKTICK == "U+0060"

\* \s of the regular expressions, and what str.strip() strips
IsSpace(c) == c \in {" ", TAB, LF}

\* [\x00-\x1F\x7F-\x9F]
IsControl(c) == c \in {SOH, TAB, LF}

\* [a-zA-Z0-9]
IsAlnum(c) == c \in {"a", "1", "A", "B"}

\* [#|\-`], the Markdown decoration is_gibberish removes
IsDecoration(c) == c \in {"#", "|", "-", BACKTICK}

\* the allowlist of is_gibberish: letters, digits, white space and the ASCII
\* punctuation it lists (of the characters here: ! @ $ ( ) = - #)
IsBasic(c) ==
    IsAlnum(c) \/ IsSpace(c) \/ c \in {"!", "@", "$", "(", ")", "=", "-", "#"}

RECURSIVE CharLStrip(_)
CharLStrip(t) ==
    IF t # <<>> /\ IsSpace(Head(t)) THEN CharLStrip(Tail(t)) ELSE t

RECURSIVE CharRStrip(_)
CharRStrip(t) ==
    IF t # <<>> /\ IsSpace(t[Len(t)])
    THEN CharRStrip(SubSeq(t, 1, Len(t) - 1))
    ELSE t

CharStrip(t) == CharRStrip(CharLStrip(t))

\* number of leading elements of t equal to c
RECURSIVE LeadingRun(_, _)
LeadingRun(t, c) ==
    IF t # <<>> /\ Head(t) = c THEN 1 + LeadingRun(Tail(t), c) ELSE 0

Drop(t, n) == SubSeq(t, n + 1, Len(t))

\* number of leading elements of t other than c
RECURSIVE LeadingOther(_, _)
LeadingOther(t, c) ==
    IF t # <<>> /\ Head(t) # c THEN 1 + LeadingOther(Tail(t), c) ELSE 0

\* str.splitlines(): no empty last line after a final line break
RECURSIVE splitlines(_)
splitlines(text) ==
    IF text = <<>> THEN <<>>
    ELSE LET n == LeadingOther(text, LF)
         IN  <<SubSeq(text, 1, n)>> \o splitlines(Drop(text, n + 1))

\* "\n".join(lines)
RECURSIVE JoinLines(_)
JoinLines(lines) ==
    IF lines = <<>> THEN <<>>
    ELSE IF Len(lines) = 1 THEN lines[1]
    ELSE lines[1] \o <<LF>> \o JoinLines(Tail(lines))

\* some stretch of t equals p
Contains(t, p) ==
    \E k \in 0..(Len(t) - Len(p)) : SubSeq(t, k + 1, k + Len(p)) = p

----------------------------------------------------------------------------

(* Quality filter: clean_chunk_text and apply_quality_filters *)

Fences == {<<BACKTICK, BACKTICK, BACKTICK>>, <<"~", "~", "~">>}

\* ^\s*(```|~~~)
IsFenceLine(line) ==
    \E f \in Fences :
        Len(CharLStrip(line)) >= 3 /\ SubSeq(CharLStrip(line), 1, 3) = f

\* ^\s*\|.*\|$
IsTableRow(line) ==
    LET t == CharLStrip(line)
    IN  Len(t) >= 2 /\ t[1] = "|" /\ t[Len(t)] = "|"

\* ^\s*#{1,6}\s
IsHeadingLine(line) ==
    LET t == CharLStrip(line)
        r == LeadingRun(t, "#")
    IN  r >= 1 /\ r <= 6 /\ Len(t) > r /\ IsSpace(t[r + 1])

\* re.sub(r"[\t\r]+", " ", line)
RECURSIVE TabsToSpace(_)
TabsToSpace(line) ==
    IF line = <<>> THEN <<>>
    ELSE IF Head(line) = TAB
    THEN <<" ">> \o TabsToSpace(Drop(line, LeadingRun(line, TAB)))
    ELSE <<Head(line)>> \o TabsToSpace(Tail(line))

\* re.sub(r" {2,}", " ", line)
RECURSIVE CollapseSpaces(_)
CollapseSpaces(line) ==
    IF line = <<>> THEN <<>>
    ELSE IF Head(line) = " "
    THEN <<" ">> \o CollapseSpaces(Drop(line, LeadingRun(line, " ")))
    ELSE <<Head(line)>> \o CollapseSpaces(Tail(line))

\* " " * leading_spaces + re.sub(r" {2,}", " ", line.lstrip())
KeepIndentCollapseSpaces(line) ==
    [k \in 1..LeadingRun(line, " ") |-> " "] \o CollapseSpaces(CharLStrip(line))

\* re.sub(r"[\x00-\x1F\x7F-\x9F]", "", line)
RemoveControl(line) == SelectSeq(line, LAMBDA c : ~IsControl(c))

\* ^\s*[-=]{3,}\s*$
IsRuleLine(line) ==
    LET t == CharStrip(line)
    IN  Len(t) >= 3 /\ \A k \in 1..Len(t) : t[k] \in {"-", "="}

RunMin == 6

\* re.sub(r"([^#\-=])\1{5,}", r"\1", line)
RECURSIVE CollapseRuns(_)
CollapseRuns(line) ==
    IF line = <<>> THEN <<>>
    ELSE IF Head(line) \notin {"#", "-", "="}
            /\ LeadingRun(line, Head(line)) >= RunMin
    THEN <<Head(line)>> \o CollapseRuns(Drop(line, LeadingRun(line, Head(line))))
    ELSE <<Head(line)>> \o CollapseRuns(Tail(line))

\* one line of clean_chunk_text
CleanLine(line) ==
    IF IsFenceLine(line) \/ IsTableRow(line) \/ IsHeadingLine(line) THEN line
    ELSE LET cleaned == RemoveControl(KeepIndentCollapseSpaces(TabsToSpace(line)))
         IN  IF IsRuleLine(cleaned) THEN cleaned ELSE CollapseRuns(cleaned)

clean_chunk_text(text) ==
    LET lines == splitlines(text)
    IN  CharStrip(JoinLines([k \in 1..Len(lines) |-> CleanLine(lines[k])]))

\* re.search(r"```|~~~|\|.*\|", text): a fence marker, or two pipes on one line
HasMarker(text) ==
    \/ \E f \in Fences : Contains(text, f)
    \/ \E a, b \in 1..Len(text) :
           /\ a < b
           /\ text[a] = "|"
           /\ text[b] = "|"
           /\ \A k \in a..b : text[k] # LF

\* re.sub(r"[#|\-`]", "", text)
StrippedText(text) == SelectSeq(text, LAMBDA c : ~IsDecoration(c))

\* re.search(r"([a-zA-Z0-9])\1{5,}", stripped_text)
HasAlnumRun(t) ==
    \E k \in 1..(Len(t) - RunMin + 1) :
        IsAlnum(t[k]) /\ \A j \in 1..(RunMin - 1) : t[k + j] = t[k]

NonBasic(t) == Cardinality({k \in 1..Len(t) : ~IsBasic(t[k])})

is_gibberish(text) ==
    IF HasMarker(text) THEN FALSE
    ELSE \/ HasAlnumRun(StrippedText(text))
         \/ Len(StrippedText(text)) > 0
                /\ 10 * NonBasic(StrippedText(text)) > Len(StrippedText(text))

\* faulty variant: the kept chunk keeps its raw text
apply_quality_filters_KeepsRawText(cs) ==
    SelectSeq(cs, LAMBDA c : clean_chunk_text(c.chunk) # <<>>
                                /\ ~is_gibberish(clean_chunk_text(c.chunk)))

RECURSIVE apply_quality_filters(_)
apply_quality_filters(cs) ==
    IF cs = <<>> THEN <<>>
    ELSE LET c == Head(cs)
             text == clean_chunk_text(c.chunk)
         IN  (IF text # <<>> /\ ~is_gibberish(text)
              THEN <<[c EXCEPT !.chunk = text]>>
              ELSE <<>>)
                 \o apply_quality_filters(Tail(cs))

----------------------------------------------------------------------------

(* State machine *)

None == "None"

\* Python values of more than one type: None, bytes, str, a raised exception
NoneValue == [type |-> "NoneType"]
BytesValue(bs) == [type |-> "bytes", data |-> bs]
StrValue(cs) == [type |-> "str", data |-> cs]
Raised(error_type) == [type |-> error_type]

\* process_single_file has not returned
NoResult == [status |-> None]

\* no batch is run and no request is served
NoBatch ==
    /\ container = {}
    /\ destination_path = None
    /\ counter = 0
    /\ probes = <<>>
    /\ manifest_file = <<>>
    /\ batch_pc = None
    /\ file_paths = <<>>
    /\ frames = <<>>
    /\ results = <<>>
    /\ analyses = <<>>
    /\ latest_failure_summary = <<>>
    /\ response = NoneValue
    /\ batches = <<>>
    /\ now = 0

\* the chunking engine is run on its own: nothing of batchProcessor.py exists
NoFile ==
    /\ NoBatch
    /\ options = NoneValue
    /\ blob = NoneValue
    /\ html_bytes = NoneValue
    /\ html_doc = NoneValue
    /\ decoded_html = NoneValue
    /\ html_content = NoneValue
    /\ processing_stage = None
    /\ result = NoResult
    /\ chunks_list = <<>>
    /\ filtered_chunks = <<>>
    /\ artifacts = <<>>
    /\ uploaded = <<>>
    /\ cleanings = <<>>

Init ==
    /\ strategy \in Strategies
    /\ markdown_content \in Docs
    /\ chunk_size \in ChunkSizes
    /\ chunk_overlap \in ChunkOverlaps
    /\ pc = "start"
    /\ documents = <<>>
    /\ d = 1
    /\ sub_chunks = <<>>
    /\ i = 0
    /\ chunks = <<>>
    /\ origin = <<>>
    /\ splits = <<>>
    /\ merges = <<>>
    /\ NoFile

\* the section loop starts over docs
EnterSections(docs) ==
    /\ documents' = docs
    /\ splits' = [k \in 1..Len(docs) |-> <<>>]
    /\ merges' = [k \in 1..Len(docs) |-> 0]
    /\ pc' = "section"
    /\ UNCHANGED <<batchvars, filevars, strategy, markdown_content, chunk_size, chunk_overlap, d,
                   sub_chunks, i, chunks, origin>>

\* a whole run of fixed_size_chunking: the constructor raises, or the pieces
\* are filtered and stripped
RunFixed ==
    IF SplitterRejects(chunk_size, chunk_overlap)
    THEN /\ pc' = "error"
         /\ UNCHANGED <<batchvars, filevars, strategy, markdown_content, chunk_size, chunk_overlap,
                        documents, d, sub_chunks, i, chunks, origin, splits, merges>>
    ELSE \E ps \in SplitText(MarkdownText(markdown_content), chunk_size, chunk_overlap) :
            /\ chunks' = FixedChunks(ps)
            /\ origin' = [k \in 1..Len(FixedChunks(ps)) |-> 1]
            /\ splits' = <<ps>>
            /\ merges' = <<0>>
            /\ pc' = "done"
            /\ UNCHANGED <<batchvars, filevars, strategy, markdown_content, chunk_size, chunk_overlap,
                           documents, d, sub_chunks, i>>

\* get_html_chunks, the else branch of the dispatch: any strategy that is
\* neither h1_heading_based nor h2_heading_based
FixedStrategy ==
    /\ pc = "start"
    /\ strategy # CHUNKING_STRATEGY_H1_BASED
    /\ strategy # CHUNKING_STRATEGY_H2_BASED
    /\ RunFixed

\* h1_heading_based_chunking: the level-1 split is meaningful
H1SplitOnH1 ==
    /\ pc = "start"
    /\ strategy = CHUNKING_STRATEGY_H1_BASED
    /\ HasMeaningfulSplits(HeaderSplit(markdown_content, {"h1"}), "H1")
    /\ EnterSections(HeaderSplit(markdown_content, {"h1"}))

\* ... it is not, and the level-2 split is
H1FallBackToH2 ==
    /\ pc = "start"
    /\ strategy = CHUNKING_STRATEGY_H1_BASED
    /\ ~HasMeaningfulSplits(HeaderSplit(markdown_content, {"h1"}), "H1")
    /\ HasMeaningfulSplits(HeaderSplit(markdown_content, {"h2"}), "H2")
    /\ EnterSections(HeaderSplit(markdown_content, {"h2"}))

\* ... neither is: return fixed_size_chunking(markdown_content, chunk_size, chunk_overlap)
H1FallBackToFixed ==
    /\ pc = "start"
    /\ strategy = CHUNKING_STRATEGY_H1_BASED
    /\ ~HasMeaningfulSplits(HeaderSplit(markdown_content, {"h1"}), "H1")
    /\ ~HasMeaningfulSplits(HeaderSplit(markdown_content, {"h2"}), "H2")
    /\ RunFixed

\* h2_heading_based_chunking: split on both levels, no fallback
H2Split ==
    /\ pc = "start"
    /\ strategy = CHUNKING_STRATEGY_H2_BASED
    /\ EnterSections(HeaderSplit(markdown_content, {"h1", "h2"}))

\* the section fits: one chunk (both heading strategies)
SectionFits ==
    /\ pc = "section"
    /\ d <= Len(documents)
    /\ LET doc == documents[d]
           full_content == FullContent(HeadingLine(doc), SectionText(doc))
       IN  /\ count_tokens(full_content) <= chunk_size
           /\ chunks' = Append(chunks, [text |-> full_content, heading |-> Heading(doc)])
           /\ origin' = Append(origin, d)
    /\ d' = d + 1
    /\ UNCHANGED <<batchvars, filevars, strategy, markdown_content, chunk_size, chunk_overlap, pc,
                   documents, sub_chunks, i, splits, merges>>

\* the section overflows: the splitter is built with the reduced size and run
SectionOverflow ==
    /\ pc = "section"
    /\ d <= Len(documents)
    /\ LET doc == documents[d]
           heading_line == HeadingLine(doc)
           available_size ==
               IF strategy = CHUNKING_STRATEGY_H2_BASED
               THEN H2AvailableSize(heading_line)
               ELSE H1AvailableSize(heading_line)
       IN  /\ count_tokens(FullContent(heading_line, SectionText(doc))) > chunk_size
           /\ IF SplitterRejects(available_size, chunk_overlap)
              THEN /\ pc' = "error"
                   /\ UNCHANGED <<sub_chunks, i, splits, d>>
              ELSE \E ps \in SplitText(SectionText(doc), available_size, chunk_overlap) :
                      /\ sub_chunks' = ps
                      /\ splits' = [splits EXCEPT ![d] = ps]
                      /\ i' = 0
                      /\ IF ps = <<>>
                         THEN pc' = "section" /\ d' = d + 1
                         ELSE pc' = "scan" /\ d' = d
    /\ UNCHANGED <<batchvars, filevars, strategy, markdown_content, chunk_size, chunk_overlap,
                   documents, chunks, origin, merges>>

\* faulty variant: the merging iteration does not continue, it emits its chunk as well
H1ScanMerge_NoContinue ==
    /\ pc = "scan"
    /\ strategy = CHUNKING_STRATEGY_H1_BASED
    /\ MergeCondition(sub_chunks, i, ContinuationOverhead(HeadingLine(documents[d])))
    /\ sub_chunks' = [sub_chunks EXCEPT ![i + 2] = MergedContent(sub_chunks, i)]
    /\ merges' = [merges EXCEPT ![d] = @ + 1]
    /\ chunks' = Append(chunks,
           [text |-> CombinedText(HeadingLine(documents[d]), strip(sub_chunks[i + 1]), i),
            heading |-> Heading(documents[d])])
    /\ origin' = Append(origin, d)
    /\ i' = i + 1
    /\ UNCHANGED <<batchvars, filevars, strategy, markdown_content, chunk_size, chunk_overlap, pc,
                   documents, d, splits>>

\* faulty variant: the merging iteration runs in the H2 strategy as well
H1ScanMerge_AnyStrategy ==
    /\ pc = "scan"
    /\ MergeCondition(sub_chunks, i, ContinuationOverhead(HeadingLine(documents[d])))
    /\ sub_chunks' = [sub_chunks EXCEPT ![i + 2] = MergedContent(sub_chunks, i)]
    /\ merges' = [merges EXCEPT ![d] = @ + 1]
    /\ i' = i + 1
    /\ UNCHANGED <<batchvars, filevars, strategy, markdown_content, chunk_size, chunk_overlap, pc,
                   documents, d, chunks, origin, splits>>

\* one iteration of the H1 loop that merges sub_chunks[i] into sub_chunks[i + 1]
\* and continues
H1ScanMerge ==
    /\ pc = "scan"
    /\ strategy = CHUNKING_STRATEGY_H1_BASED
    /\ MergeCondition(sub_chunks, i, ContinuationOverhead(HeadingLine(documents[d])))
    /\ sub_chunks' = [sub_chunks EXCEPT ![i + 2] = MergedContent(sub_chunks, i)]
    /\ merges' = [merges EXCEPT ![d] = @ + 1]
    /\ i' = i + 1
    /\ UNCHANGED <<batchvars, filevars, strategy, markdown_content, chunk_size, chunk_overlap, pc,
                   documents, d, chunks, origin, splits>>

\* one iteration of the loop that emits a chunk; after the last one the
\* section loop goes on
ScanEmit ==
    /\ pc = "scan"
    /\ \/ strategy = CHUNKING_STRATEGY_H2_BASED
       \/ ~MergeCondition(sub_chunks, i, ContinuationOverhead(HeadingLine(documents[d])))
    /\ LET doc == documents[d]
           sub_chunk == strip(sub_chunks[i + 1])
       IN  /\ chunks' = Append(chunks,
                  [text |-> CombinedText(HeadingLine(doc), sub_chunk, i),
                   heading |-> Heading(doc)])
           /\ origin' = Append(origin, d)
    /\ IF i + 1 < Len(sub_chunks)
       THEN i' = i + 1 /\ UNCHANGED <<pc, d>>
       ELSE i' = 0 /\ pc' = "section" /\ d' = d + 1
    /\ UNCHANGED <<batchvars, filevars, strategy, markdown_content, chunk_size, chunk_overlap,
                   documents, sub_chunks, splits, merges>>

\* return chunks
Return ==
    /\ pc = "section"
    /\ d > Len(documents)
    /\ pc' = "done"
    /\ UNCHANGED <<batchvars, filevars, strategy, markdown_content, chunk_size, chunk_overlap,
                   documents, d, sub_chunks, i, chunks, origin, splits, merges>>

Next ==
    \/ FixedStrategy
    \/ H1SplitOnH1
    \/ H1FallBackToH2
    \/ H1FallBackToFixed
    \/ H2Split
    \/ SectionFits
    \/ SectionOverflow
    \/ H1ScanMerge
    \/ ScanEmit
    \/ Return

Spec == Init /\ [][Next]_vars

\* h2_heading_based_chunking on its own, with a chunk_size large enough for
\* an overflowing section to be cut into pieces that respect the budget
H2ChunkSizes == {60, 110}

InitH2 ==
    /\ strategy = CHUNKING_STRATEGY_H2_BASED
    /\ markdown_content \in Docs
    /\ chunk_size \in H2ChunkSizes
    /\ chunk_overlap \in ChunkOverlaps
    /\ pc = "start"
    /\ documents = <<>>
    /\ d = 1
    /\ sub_chunks = <<>>
    /\ i = 0
    /\ chunks = <<>>
    /\ origin = <<>>
    /\ splits = <<>>
    /\ merges = <<>>
    /\ NoFile

NextH2 ==
    \/ H2Split
    \/ SectionFits
    \/ SectionOverflow
    \/ ScanEmit
    \/ Return

SpecH2 == InitH2 /\ [][NextH2]_vars

----------------------------------------------------------------------------

(* clean_chunk_text as a function of its argument *)

\* the chunking engine is not running
NoChunking ==
    /\ strategy = CHUNKING_STRATEGY_FIXED
    /\ markdown_content = <<>>
    /\ chunk_size \in {750}
    /\ chunk_overlap \in {100}
    /\ pc = None
    /\ documents = <<>>
    /\ d = 1
    /\ sub_chunks = <<>>
    /\ i = 0
    /\ chunks = <<>>
    /\ origin = <<>>
    /\ splits = <<>>
    /\ merges = <<>>

RECURSIVE Concat(_)
Concat(ss) == IF ss = <<>> THEN <<>> ELSE Head(ss) \o Concat(Tail(ss))

\* the texts made of up to n of the given stretches
TextsOf(segments, n) ==
    {Concat(ss) : ss \in UNION {[1..k -> segments] : k \in 0..n}}

MaxCleanSegments == 5

CleanSegments ==
    {<<"a">>, <<" ">>, <<SOH>>, <<TAB>>, <<LF>>, [k \in 1..RunMin |-> "a"]}

MaxCalls == 3

InitClean ==
    /\ NoChunking
    /\ NoBatch
    /\ options = NoneValue
    /\ blob = NoneValue
    /\ html_bytes = NoneValue
    /\ html_doc = NoneValue
    /\ decoded_html = NoneValue
    /\ html_content = NoneValue
    /\ processing_stage = None
    /\ result = NoResult
    /\ chunks_list = <<>>
    /\ filtered_chunks = <<>>
    /\ artifacts = <<>>
    /\ uploaded = <<>>
    /\ \E text \in TextsOf(CleanSegments, MaxCleanSegments) : cleanings = <<text>>

\* clean_chunk_text is called on the last text
CleanChunkText ==
    /\ cleanings # <<>>
    /\ Len(cleanings) < MaxCalls
    /\ cleanings' = Append(cleanings, clean_chunk_text(cleanings[Len(cleanings)]))
    /\ UNCHANGED <<batchvars, strategy, markdown_content, chunk_size, chunk_overlap, pc,
                   documents, d, sub_chunks, i, chunks, origin, splits, merges,
                   options, blob, html_bytes, html_doc, decoded_html,
                   html_content,
                   processing_stage, result, chunks_list, filtered_chunks,
                   artifacts, uploaded>>

NextClean == CleanChunkText

SpecClean == InitClean /\ [][NextClean]_vars

----------------------------------------------------------------------------

(* apply_quality_filters on the positioned chunks get_html_chunks returned, *)
(* as stage filtering_chunks of process_single_file runs it                 *)

file_path == "docs/page.html"

\* the URL of a chunk, for a path that names none of the documentation trees
UrlOf(metadata_storage_path) == metadata_storage_path

\* the filter's in-place update of the chunks it keeps
CleanedInPlace(cs) ==
    [k \in 1..Len(cs) |->
        LET text == clean_chunk_text(cs[k].chunk)
        IN  IF text # <<>> /\ ~is_gibberish(text)
            THEN [cs[k] EXCEPT !.chunk = text]
            ELSE cs[k]]

FilteringChunks ==
    /\ processing_stage = "chunking"
    /\ pc = "returned"
    /\ result = NoResult
    /\ processing_stage' = "filtering_chunks"
    /\ filtered_chunks' = apply_quality_filters(chunks_list)
    /\ chunks_list' = CleanedInPlace(chunks_list)
    /\ UNCHANGED <<batchvars, strategy, markdown_content, chunk_size, chunk_overlap, pc,
                   documents, d, sub_chunks, i, chunks, origin, splits, merges,
                   options, blob, html_bytes, html_doc, decoded_html,
                   html_content,
                   result, artifacts, uploaded, cleanings>>

MaxFilterSegments == 3

MaxChunks == 3

FilterSegments ==
    {<<"a">>, [k \in 1..RunMin |-> "a"], [k \in 1..RunMin |-> "1"],
     <<"!", "!", "!", "@", "@", "@", "$", "$", "$">>,
     <<BACKTICK, BACKTICK, BACKTICK>>, <<"|">>, <<"-">>, <<"#", " ">>,
     <<EACUTE>>, <<LF>>, <<SOH>>}

\* one chunk of any text, or up to MaxChunks chunks of short texts
FilterInputs ==
    {<<text>> : text \in TextsOf(FilterSegments, MaxFilterSegments)}
        \cup UNION {[1..n -> TextsOf(FilterSegments, 1)] : n \in 0..MaxChunks}

\* get_html_chunks has returned the chunks of texts ts, positioned
InitFilter ==
    \E ts \in FilterInputs :
        /\ strategy = CHUNKING_STRATEGY_FIXED
        /\ markdown_content = <<>>
        /\ chunk_size \in {750}
        /\ chunk_overlap \in {100}
        /\ pc = "returned"
        /\ documents = <<>>
        /\ d = 1
        /\ sub_chunks = <<>>
        /\ i = 0
        /\ chunks = [k \in 1..Len(ts) |-> [text |-> ts[k], heading |-> ""]]
        /\ origin = [k \in 1..Len(ts) |-> 1]
        /\ splits = <<>>
        /\ merges = <<>>
        /\ options = [chunking_strategy |-> CHUNKING_STRATEGY_FIXED]
        /\ blob = <<>>
        /\ html_bytes = <<>>
        /\ html_doc = [file_data |-> [data |-> <<>>], metadata_storage_path |-> file_path]
        /\ decoded_html = <<>>
        /\ html_content = <<>>
        /\ processing_stage = "chunking"
        /\ result = NoResult
        /\ chunks_list = [k \in 1..Len(ts) |->
               [url |-> UrlOf(file_path), chunk |-> ts[k], position |-> k - 1]]
        /\ filtered_chunks = <<>>
        /\ artifacts = <<>>
        /\ uploaded = <<>>
        /\ cleanings = <<>>
        /\ NoBatch

NextFilter == FilteringChunks

SpecFilter == InitFilter /\ [][NextFilter]_vars

----------------------------------------------------------------------------

(* Bytes.  A byte is a number 0..255, a decoded string a sequence of code   *)
(* points, a base64 text a sequence of 6-bit digits with the padding sign.  *)

B64Pad == 64

\* base64.b64encode
RECURSIVE b64encode(_)
b64encode(bs) ==
    IF bs = <<>> THEN <<>>
    ELSE IF Len(bs) = 1
    THEN <<bs[1] \div 4, (bs[1] % 4) * 16, B64Pad, B64Pad>>
    ELSE IF Len(bs) = 2
    THEN <<bs[1] \div 4, (bs[1] % 4) * 16 + bs[2] \div 16, (bs[2] % 16) * 4, B64Pad>>
    ELSE <<bs[1] \div 4, (bs[1] % 4) * 16 + bs[2] \div 16,
           (bs[2] % 16) * 4 + bs[3] \div 64, bs[3] % 64>>
             \o b64encode(Drop(bs, 3))

\* base64.b64decode
RECURSIVE b64decode(_)
b64decode(ds) ==
    IF ds = <<>> THEN <<>>
    ELSE (IF ds[3] = B64Pad
          THEN <<ds[1] * 4 + ds[2] \div 16>>
          ELSE IF ds[4] = B64Pad
          THEN <<ds[1] * 4 + ds[2] \div 16, (ds[2] % 16) * 16 + ds[3] \div 4>>
          ELSE <<ds[1] * 4 + ds[2] \div 16, (ds[2] % 16) * 16 + ds[3] \div 4,
                 (ds[3] % 4) * 64 + ds[4]>>)
             \o b64decode(Drop(ds, 4))

IsContinuation(b) == b \in 128..191

\* number of bytes of the UTF-8 sequence a byte opens, 0 when it opens none
Utf8Length(b) ==
    IF b < 128 THEN 1
    ELSE IF b \in 194..223 THEN 2
    ELSE IF b \in 224..239 THEN 3
    ELSE IF b \in 240..244 THEN 4
    ELSE 0

\* the second byte UTF-8 allows after the lead byte b
SecondByteOk(b, c) ==
    CASE b = 224 -> c \in 160..191
      [] b = 237 -> c \in 128..159
      [] b = 240 -> c \in 144..191
      [] b = 244 -> c \in 128..143
      [] OTHER -> IsContinuation(c)

\* bs starts with a well-formed UTF-8 sequence
Utf8Head(bs) ==
    LET n == Utf8Length(bs[1])
    IN  /\ n > 0
        /\ Len(bs) >= n
        /\ n >= 2 => SecondByteOk(bs[1], bs[2])
        /\ \A k \in 3..n : IsContinuation(bs[k])

RECURSIVE Utf8Valid(_)
Utf8Valid(bs) ==
    bs = <<>> \/ (Utf8Head(bs) /\ Utf8Valid(Drop(bs, Utf8Length(bs[1]))))

Utf8CodePoint(bs) ==
    CASE Utf8Length(bs[1]) = 1 -> bs[1]
      [] Utf8Length(bs[1]) = 2 -> (bs[1] - 192) * 64 + (bs[2] - 128)
      [] Utf8Length(bs[1]) = 3 ->
             (bs[1] - 224) * 4096 + (bs[2] - 128) * 64 + (bs[3] - 128)
      [] OTHER ->
             (bs[1] - 240) * 262144 + (bs[2] - 128) * 4096
                 + (bs[3] - 128) * 64 + (bs[4] - 128)

\* bytes.decode("utf-8") of well-formed bytes
RECURSIVE Utf8Decode(_)
Utf8Decode(bs) ==
    IF bs = <<>> THEN <<>>
    ELSE <<Utf8CodePoint(bs)>> \o Utf8Decode(Drop(bs, Utf8Length(bs[1])))

\* the bytes windows-1252 leaves undefined
Cp1252Undefined == {129, 141, 143, 144, 157}

\* the code points of the bytes 0x80..0x9F that windows-1252 defines
Cp1252High ==
    128 :> 8364 @@ 130 :> 8218 @@ 131 :> 402 @@ 132 :> 8222 @@ 133 :> 8230
        @@ 134 :> 8224 @@ 135 :> 8225 @@ 136 :> 710 @@ 137 :> 8240
        @@ 138 :> 352 @@ 139 :> 8249 @@ 140 :> 338 @@ 142 :> 381
        @@ 145 :> 8216 @@ 146 :> 8217 @@ 147 :> 8220 @@ 148 :> 8221
        @@ 149 :> 8226 @@ 150 :> 8211 @@ 151 :> 8212 @@ 152 :> 732
        @@ 153 :> 8482 @@ 154 :> 353 @@ 155 :> 8250 @@ 156 :> 339
        @@ 158 :> 382 @@ 159 :> 376

ReplacementCharacter == 65533

Cp1252CodePoint(b) ==
    IF b \in Cp1252Undefined THEN ReplacementCharacter
    ELSE IF b \in 128..159 THEN Cp1252High[b]
    ELSE b

Cp1252Valid(bs) == \A k \in 1..Len(bs) : bs[k] \notin Cp1252Undefined

\* bytes.decode("windows-1252", errors="replace"); equal to the strict
\* decoding where that one does not raise
Cp1252Decode(bs) == [k \in 1..Len(bs) |-> Cp1252CodePoint(bs[k])]

\* chunking.get_html_content: the decoded text, or the exception it raises
get_html_content(doc) ==
    LET decoded_file_data == b64decode(doc.file_data.data)
    IN  IF Utf8Valid(decoded_file_data)
        THEN StrValue(Utf8Decode(decoded_file_data))
        ELSE IF Cp1252Valid(decoded_file_data)
        THEN StrValue(Cp1252Decode(decoded_file_data))
        ELSE Raised("UnicodeDecodeError")

----------------------------------------------------------------------------

(* The text of a chunk in characters *)

\* a line of n one-letter words
Words(n) == [k \in 1..(2 * n - 1) |-> IF k % 2 = 1 THEN "a" ELSE " "]

UnitChars(u) ==
    CASE u = "w5" -> Words(5)
      [] u = "w50" -> Words(50)
      [] u = "##" -> <<"#", "#">>
      [] u = "A" -> <<" ", "A">>
      [] u = "B" -> <<" ", "B">>
      [] u = "(continued)" -> <<" ", "(", "a", ")">>
      [] u = "nn" -> <<LF, LF>>
      [] u = "n" -> <<LF>>
      [] u = "sp" -> <<" ">>
      [] u = "zw" -> <<ZWSP, " ", ZWSP>>
      [] OTHER -> <<u>>

RECURSIVE CharsOf(_)
CharsOf(text) ==
    IF text = <<>> THEN <<>> ELSE UnitChars(Head(text)) \o CharsOf(Tail(text))

\* "(continued)" has no space before it when it opens the text
ChunkChars(text) ==
    IF text # <<>> /\ Head(text) = "(continued)" THEN Tail(CharsOf(text))
    ELSE CharsOf(text)

----------------------------------------------------------------------------

(* process_single_file, and get_html_chunks called on its own, for the      *)
(* Fixed strategy and the names that fall back to it.  blob is the bytes    *)
(* that decide how the file decodes; the conversion of the HTML to Markdown *)
(* is the libraries', and markdown_content, its result, is any document of  *)
(* FileDocs for a file that is not empty.                                   *)

MaxBytes == 2

\* 'A', and 0xC3 0x81 0xE9: UTF-8 lead bytes, a continuation byte that
\* windows-1252 leaves undefined
Bytes == {65, 195, 129, 233}

ByteStrings == UNION {[1..n -> Bytes] : n \in 0..MaxBytes}

MaxFileBlocks == 2

FileBlocks ==
    {[kind |-> "text", v |-> "w5"], [kind |-> "text", v |-> "zw"],
     [kind |-> "h1", v |-> "A"]}

FileDocs == UNION {[1..n -> FileBlocks] : n \in 0..MaxFileBlocks}

\* options["chunking_strategy"]: the Fixed name, the differently-cased name
\* of the example request (none of the three), or no entry
OptionStrategies == {CHUNKING_STRATEGY_FIXED, "Fixed_Size", Absent}

\* options.get("chunking_strategy", CHUNKING_STRATEGY_FIXED), and the default
\* of get_html_chunks' parameter
RequestedStrategy ==
    IF options.chunking_strategy = Absent THEN CHUNKING_STRATEGY_FIXED
    ELSE options.chunking_strategy

\* processing_stage "init": process_single_file is entered;
\* processing_stage None: get_html_chunks is called on its own
InitFile ==
    /\ NoBatch
    /\ options \in [chunking_strategy : OptionStrategies]
    /\ blob \in ByteStrings
    /\ markdown_content \in FileDocs
    /\ blob = <<>> => markdown_content = <<>>
    /\ chunk_size \in ChunkSizes
    /\ chunk_overlap \in ChunkOverlaps
    /\ \/ /\ processing_stage = "init"
          /\ pc = None
          /\ strategy = None
          /\ html_doc = NoneValue
       \/ /\ processing_stage = None
          /\ pc = "call"
          /\ strategy = RequestedStrategy
          /\ html_doc = [file_data |-> [data |-> b64encode(blob)],
                         metadata_storage_path |-> file_path]
    /\ html_bytes = NoneValue
    /\ decoded_html = NoneValue
    /\ html_content = NoneValue
    /\ result = NoResult
    /\ documents = <<>>
    /\ d = 1
    /\ sub_chunks = <<>>
    /\ i = 0
    /\ chunks = <<>>
    /\ origin = <<>>
    /\ splits = <<>>
    /\ merges = <<>>
    /\ chunks_list = <<>>
    /\ filtered_chunks = <<>>
    /\ artifacts = <<>>
    /\ uploaded = <<>>
    /\ cleanings = <<>>

chunkvars == <<documents, d, sub_chunks, i, chunks, origin, splits, merges,
               markdown_content, chunk_size, chunk_overlap>>

Failed(stage, error_type) ==
    [file_path |-> file_path, status |-> "failed", error_type |-> error_type,
     processing_stage |-> stage]

\* stage reading_file: StorageClient.read_file returns the bytes, or logs
\* the error and returns None
ReadFile ==
    /\ processing_stage = "init"
    /\ processing_stage' = "reading_file"
    /\ html_bytes' \in {BytesValue(blob), NoneValue}
    /\ UNCHANGED <<batchvars, chunkvars, strategy, pc, options, blob, html_doc, decoded_html,
                   html_content, result, chunks_list, filtered_chunks, artifacts,
                   uploaded, cleanings>>

\* stage preparing_html_doc: base64 of the bytes (a TypeError for None), the
\* decoding kept for the metadata, the document dictionary
PrepareHtmlDoc ==
    /\ processing_stage = "reading_file"
    /\ processing_stage' = "preparing_html_doc"
    /\ IF html_bytes = NoneValue
       THEN /\ result' = Failed("preparing_html_doc", "TypeError")
            /\ UNCHANGED <<html_doc, decoded_html>>
       ELSE /\ html_doc' = [file_data |-> [data |-> b64encode(html_bytes.data)],
                            metadata_storage_path |-> file_path]
            /\ decoded_html' = StrValue(IF Utf8Valid(html_bytes.data)
                                        THEN Utf8Decode(html_bytes.data)
                                        ELSE Cp1252Decode(html_bytes.data))
            /\ UNCHANGED result
    /\ UNCHANGED <<batchvars, chunkvars, strategy, pc, options, blob, html_bytes, html_content,
                   chunks_list, filtered_chunks, artifacts, uploaded, cleanings>>

valid_strategies ==
    {CHUNKING_STRATEGY_FIXED, CHUNKING_STRATEGY_H1_BASED, CHUNKING_STRATEGY_H2_BASED}

\* faulty variant: an invalid strategy name is an error of the chunking stage
StartChunking_RejectsInvalid ==
    /\ processing_stage = "preparing_html_doc"
    /\ result = NoResult
    /\ processing_stage' = "chunking"
    /\ IF RequestedStrategy \notin valid_strategies
       THEN result' = Failed("chunking", "ValueError") /\ UNCHANGED <<strategy, pc>>
       ELSE strategy' = RequestedStrategy /\ pc' = "call" /\ UNCHANGED result
    /\ UNCHANGED <<batchvars, chunkvars, options, blob, html_bytes, html_doc, decoded_html,
                   html_content, chunks_list, filtered_chunks, artifacts,
                   uploaded, cleanings>>

\* stage chunking: the strategy is validated (an invalid name is replaced by
\* fixed_size, with a warning) and get_html_chunks is called
StartChunking ==
    /\ processing_stage = "preparing_html_doc"
    /\ result = NoResult
    /\ processing_stage' = "chunking"
    /\ strategy' = (IF RequestedStrategy \notin valid_strategies
                    THEN CHUNKING_STRATEGY_FIXED
                    ELSE RequestedStrategy)
    /\ pc' = "call"
    /\ UNCHANGED <<batchvars, chunkvars, options, blob, html_bytes, html_doc, decoded_html,
                   html_content, result, chunks_list, filtered_chunks, artifacts,
                   uploaded, cleanings>>

\* get_html_chunks: the HTML is decoded (and converted), or the decoding raises
GetHtmlContent ==
    /\ pc = "call"
    /\ html_content' = get_html_content(html_doc)
    /\ pc' = IF html_content'.type = "str" THEN "start" ELSE "decode_error"
    /\ UNCHANGED <<batchvars, chunkvars, strategy, options, blob, html_bytes, html_doc,
                   decoded_html, processing_stage, result, chunks_list,
                   filtered_chunks, artifacts, uploaded, cleanings>>

\* get_html_chunks: the chunk list with URLs and positions
PositionedChunks(cs, metadata_storage_path) ==
    [k \in 1..Len(cs) |->
        [url |-> UrlOf(metadata_storage_path),
         chunk |-> ChunkChars(cs[k].text),
         position |-> k - 1]]

\* get_html_chunks: the chunk list is built and returned
BuildChunksList ==
    /\ pc = "done"
    /\ chunks_list' = PositionedChunks(chunks, html_doc.metadata_storage_path)
    /\ pc' = "returned"
    /\ UNCHANGED <<batchvars, chunkvars, strategy, options, blob, html_bytes, html_doc,
                   decoded_html, html_content, processing_stage, result,
                   filtered_chunks, artifacts, uploaded, cleanings>>

\* what get_html_chunks raised reaches the except clause of process_single_file
ChunkingRaises ==
    /\ processing_stage = "chunking"
    /\ result = NoResult
    /\ pc \in {"error", "decode_error"}
    /\ result' = Failed("chunking",
                        IF pc = "error" THEN "ValueError" ELSE html_content.type)
    /\ UNCHANGED <<batchvars, chunkvars, strategy, pc, options, blob, html_bytes, html_doc,
                   decoded_html, html_content, processing_stage, chunks_list,
                   filtered_chunks, artifacts, uploaded, cleanings>>

\* stage extracting_metadata: category paths and title are read from decoded_html
ExtractingMetadata ==
    /\ processing_stage = "filtering_chunks"
    /\ processing_stage' = "extracting_metadata"
    /\ UNCHANGED <<batchvars, chunkvars, strategy, pc, options, blob, html_bytes, html_doc,
                   decoded_html, html_content, result, chunks_list,
                   filtered_chunks, artifacts, uploaded, cleanings>>

\* utils.generate_artifact: one artifact per chunk, in order (of its fields,
\* the location, the chunk text and the chunk_id; the chunk_id, a hash of the
\* file's path and the position, is written as what it is the hash of)
generate_artifact(cs, metadata_storage_path) ==
    [k \in 1..Len(cs) |->
        [location |-> cs[k].url, chunk |-> cs[k].chunk,
         chunk_id |-> <<metadata_storage_path, cs[k].position>>]]

\* stage generating_artifacts
GeneratingArtifacts ==
    /\ processing_stage = "extracting_metadata"
    /\ processing_stage' = "generating_artifacts"
    /\ artifacts' = generate_artifact(filtered_chunks, file_path)
    /\ UNCHANGED <<batchvars, chunkvars, strategy, pc, options, blob, html_bytes, html_doc,
                   decoded_html, html_content, result, chunks_list,
                   filtered_chunks, uploaded, cleanings>>

\* stage writing_artifacts: write_files uploads the artifacts one by one; an
\* upload may raise; after the last one process_single_file returns success
WritingArtifacts ==
    /\ processing_stage = "generating_artifacts"
    /\ processing_stage' = "writing_artifacts"
    /\ \E n \in 0..Len(artifacts) :
           /\ uploaded' = SubSeq(artifacts, 1, n)
           /\ result' = IF n = Len(artifacts)
                        THEN [file_path |-> file_path, status |-> "success",
                              chunks |-> Len(artifacts)]
                        ELSE Failed("writing_artifacts", "HttpResponseError")
    /\ UNCHANGED <<batchvars, chunkvars, strategy, pc, options, blob, html_bytes, html_doc,
                   decoded_html, html_content, chunks_list, filtered_chunks,
                   artifacts, cleanings>>

NextFile ==
    \/ ReadFile
    \/ PrepareHtmlDoc
    \/ StartChunking
    \/ GetHtmlContent
    \/ FixedStrategy
    \/ BuildChunksList
    \/ ChunkingRaises
    \/ FilteringChunks
    \/ ExtractingMetadata
    \/ GeneratingArtifacts
    \/ WritingArtifacts

SpecFile == InitFile /\ [][NextFile]_vars

----------------------------------------------------------------------------

(* The destination container and the choice of the destination folder:      *)
(* process_batch up to list_files, generate_new_folder_name, folder_exists. *)
(* Folder k is the path <destination>_<k>, folder 0 the destination itself. *)

\* the variables of app.py
appvars == <<latest_failure_summary, response, batches, now>>

\* the variables of one chunking run and of one process_single_file call
enginevars == <<filevars, chunkvars, strategy, pc>>

\* a blob of folder k, or of its manifests folder <destination>_<k>_manifests
BlobName(k, in_manifests, name) ==
    [folder |-> k, manifests |-> in_manifests, name |-> name]

\* the decimal digits of j start with the digits of k
RECURSIVE DecimalPrefix(_, _)
DecimalPrefix(k, j) == j = k \/ (j >= 10 /\ DecimalPrefix(k, j \div 10))

\* list_blobs(name_starts_with=<path of folder k>) lists the blob: every
\* name starts with the destination path, and <destination>_<j>... starts
\* with <destination>_<k> when the digits do
NameStartsWith(b, k) == k = 0 \/ (b.folder >= 1 /\ DecimalPrefix(k, b.folder))

\* StorageClient.folder_exists: the answers a call can give, True when a blob
\* is listed, False when none is or when listing raises
folder_exists(k) == {\E b \in container : NameStartsWith(b, k), FALSE}

MaxFolders == 3

\* blobs that earlier batches left in the container
OldBlobs ==
    {BlobName(k, FALSE, <<"old", 0, 0>>) : k \in 0..MaxFolders}
        \cup {BlobName(0, TRUE, <<"manifest.jsonl", 0, 0>>)}

\* process_batch: the destination is checked
CheckDestination ==
    /\ batch_pc = "check_destination"
    /\ \E exists \in folder_exists(destination_path) :
           IF exists
           THEN /\ batch_pc' = "generate_new_folder_name"
                /\ counter' = 1
           ELSE /\ batch_pc' = "list_files"
                /\ UNCHANGED counter
    /\ UNCHANGED <<container, destination_path, probes, manifest_file, file_paths,
                   frames, results, analyses, appvars, enginevars>>

\* faulty variant: the first folder probed is returned whatever the answer
ProbeFolder_ReturnsFirst ==
    /\ batch_pc = "generate_new_folder_name"
    /\ \E exists \in folder_exists(counter) :
           /\ probes' = Append(probes, exists)
           /\ destination_path' = counter
           /\ batch_pc' = "list_files"
    /\ UNCHANGED <<container, counter, manifest_file, file_paths, frames, results,
                   analyses, appvars, enginevars>>

\* generate_new_folder_name: one evaluation of the loop condition, and the
\* return with the assignment to destination_config["path"]
ProbeFolder ==
    /\ batch_pc = "generate_new_folder_name"
    /\ \E exists \in folder_exists(counter) :
           /\ probes' = Append(probes, exists)
           /\ IF exists
              THEN counter' = counter + 1 /\ UNCHANGED <<destination_path, batch_pc>>
              ELSE /\ destination_path' = counter
                   /\ batch_pc' = "list_files"
                   /\ UNCHANGED counter
    /\ UNCHANGED <<container, manifest_file, file_paths, frames, results, analyses,
                   appvars, enginevars>>

InitFolder ==
    /\ NoChunking
    /\ options = NoneValue
    /\ blob = NoneValue
    /\ html_bytes = NoneValue
    /\ html_doc = NoneValue
    /\ decoded_html = NoneValue
    /\ html_content = NoneValue
    /\ processing_stage = None
    /\ result = NoResult
    /\ chunks_list = <<>>
    /\ filtered_chunks = <<>>
    /\ artifacts = <<>>
    /\ uploaded = <<>>
    /\ cleanings = <<>>
    /\ container \in SUBSET OldBlobs
    /\ destination_path = 0
    /\ counter = 0
    /\ probes = <<>>
    /\ manifest_file = <<>>
    /\ batch_pc = "check_destination"
    /\ file_paths = <<>>
    /\ frames = <<>>
    /\ results = <<>>
    /\ analyses = <<>>
    /\ latest_failure_summary = <<>>
    /\ response = NoneValue
    /\ batches = <<>>
    /\ now = 0

NextFolder == CheckDestination \/ ProbeFolder

\* the loop is not suspended for ever
SpecFolder == InitFolder /\ [][NextFolder]_vars /\ WF_vars(NextFolder)

----------------------------------------------------------------------------

(* process_batch: the worker pool of process_files_parallel, each           *)
(* process_single_file invocation with its own local variables (a frame),   *)
(* the consolidated analysis and the upload of the manifests folder.        *)
(* Source file k is the k-th name list_files returns.                       *)

MaxFiles == 2

MaxWorkers == 2

\* the Markdown a source file converts to: two paragraphs, or a paragraph
\* the quality filter rejects followed by one it keeps
BatchDocs ==
    {<<[kind |-> "text", v |-> "w5"], [kind |-> "text", v |-> "w5"]>>,
     <<[kind |-> "text", v |-> "zw"], [kind |-> "text", v |-> "w5"]>>}

\* lines an earlier batch with the same batch_id left in the local manifest
OldManifests == {<<>>, <<<<1, 0>>>>}

\* what an earlier batch left in the destination container
OldContainers ==
    {{}, {BlobName(0, FALSE, <<"old", 0, 0>>)}}

\* a submitted invocation that no worker thread has taken up
QueuedFrame ==
    [stage |-> "queued", markdown_content |-> <<>>, chunks_list |-> <<>>,
     filtered_chunks |-> <<>>, artifacts |-> <<>>, written |-> 0,
     result |-> NoResult]

InitBatch ==
    /\ strategy = CHUNKING_STRATEGY_FIXED
    /\ markdown_content = <<>>
    /\ chunk_size = 4
    /\ chunk_overlap = 0
    /\ pc = None
    /\ documents = <<>>
    /\ d = 1
    /\ sub_chunks = <<>>
    /\ i = 0
    /\ chunks = <<>>
    /\ origin = <<>>
    /\ splits = <<>>
    /\ merges = <<>>
    /\ options \in [max_workers : 0..MaxWorkers, batch_id : {"batch_1"}]
    /\ blob = NoneValue
    /\ html_bytes = NoneValue
    /\ html_doc = NoneValue
    /\ decoded_html = NoneValue
    /\ html_content = NoneValue
    /\ processing_stage = None
    /\ result = NoResult
    /\ chunks_list = <<>>
    /\ filtered_chunks = <<>>
    /\ artifacts = <<>>
    /\ uploaded = <<>>
    /\ cleanings = <<>>
    /\ container \in OldContainers
    /\ destination_path = 0
    /\ counter = 0
    /\ probes = <<>>
    /\ manifest_file \in OldManifests
    /\ batch_pc = "check_destination"
    /\ file_paths = <<>>
    /\ frames = <<>>
    /\ results = <<>>
    /\ analyses = <<>>
    /\ latest_failure_summary = <<>>
    /\ response = NoneValue
    /\ batches = <<>>
    /\ now = 0

NoFilesResult == [status |-> "failed", error_message |-> "No files to process"]

\* process_batch: the source files are listed (an empty list as well when
\* listing raises); without files it returns; otherwise process_files_parallel
\* builds the pool, which raises ValueError for max_workers <= 0, and submits
\* one invocation per path
ListFiles ==
    /\ batch_pc = "list_files"
    /\ \E n \in 0..MaxFiles :
           /\ file_paths' = [k \in 1..n |-> k]
           /\ IF n = 0
              THEN /\ results' = <<NoFilesResult>>
                   /\ batch_pc' = "returned"
                   /\ UNCHANGED frames
              ELSE IF options.max_workers <= 0
              THEN /\ batch_pc' = "raised"
                   /\ UNCHANGED <<results, frames>>
              ELSE /\ frames' = [k \in 1..n |-> QueuedFrame]
                   /\ batch_pc' = "process_files_parallel"
                   /\ UNCHANGED results
    /\ UNCHANGED <<container, destination_path, counter, probes, manifest_file,
                   analyses, appvars, enginevars>>

\* the invocations a worker thread is running
InProgress ==
    Cardinality({k \in 1..Len(frames) : frames[k].stage \notin {"queued", "returned"}})

\* faulty variant: the pool has no limit
PoolHasIdleWorker_Unbounded == TRUE

\* ThreadPoolExecutor(max_workers): fewer than max_workers threads are busy
PoolHasIdleWorker == InProgress < options.max_workers

\* the except clause of process_single_file
FailedFile(path, stage, error_type) ==
    [file_path |-> path, status |-> "failed", error_type |-> error_type,
     processing_stage |-> stage]

framevars == <<container, destination_path, counter, probes, manifest_file,
               batch_pc, file_paths, results, analyses>>

\* executor.map: a worker thread takes the next submitted invocation
StartWorker(k) ==
    /\ batch_pc = "process_files_parallel"
    /\ frames[k].stage = "queued"
    /\ \A j \in 1..(k - 1) : frames[j].stage # "queued"
    /\ PoolHasIdleWorker
    /\ frames' = [frames EXCEPT ![k].stage = "reading_file"]
    /\ UNCHANGED <<framevars, appvars, enginevars>>

\* stages reading_file and preparing_html_doc: the file is read, or read_file
\* returned None and the encoding of None raises
WorkerReads(k) ==
    /\ frames[k].stage = "reading_file"
    /\ \/ \E doc \in BatchDocs :
             frames' = [frames EXCEPT ![k].stage = "chunking",
                                      ![k].markdown_content = doc]
       \/ frames' = [frames EXCEPT
              ![k].stage = "returned",
              ![k].result = FailedFile(file_paths[k], "preparing_html_doc", "TypeError")]
    /\ UNCHANGED <<framevars, appvars, enginevars>>

\* stage chunking: get_html_chunks returns the positioned chunks of the Fixed
\* strategy, or the decoding raises
WorkerChunks(k) ==
    /\ frames[k].stage = "chunking"
    /\ \/ \E cs \in FixedSizeResults(frames[k].markdown_content, chunk_size, chunk_overlap) :
             frames' = [frames EXCEPT
                 ![k].stage = "filtering_chunks",
                 ![k].chunks_list = PositionedChunks(cs, file_paths[k])]
       \/ frames' = [frames EXCEPT
              ![k].stage = "returned",
              ![k].result = FailedFile(file_paths[k], "chunking", "UnicodeDecodeError")]
    /\ UNCHANGED <<framevars, appvars, enginevars>>

\* faulty variant: the chunk list is kept in one attribute of the processor,
\* which holds the list of the last file that was chunked
ChunksToFilter_Shared(k) ==
    LET chunked == {j \in 1..Len(frames) : frames[j].chunks_list # <<>>}
    IN  IF chunked = {} THEN <<>>
        ELSE frames[CHOOSE j \in chunked : \A h \in chunked : h <= j].chunks_list

\* the chunks local variable of the invocation
ChunksToFilter(k) == frames[k].chunks_list

\* stages filtering_chunks, extracting_metadata and generating_artifacts
WorkerFilters(k) ==
    /\ frames[k].stage = "filtering_chunks"
    /\ frames' = [frames EXCEPT
           ![k].stage = "writing_artifacts",
           ![k].chunks_list = CleanedInPlace(ChunksToFilter(k)),
           ![k].filtered_chunks = apply_quality_filters(ChunksToFilter(k)),
           ![k].artifacts =
               generate_artifact(apply_quality_filters(ChunksToFilter(k)), file_paths[k])]
    /\ UNCHANGED <<framevars, appvars, enginevars>>

\* the blob write_files uploads an artifact to
ArtifactBlob(artifact) ==
    BlobName(destination_path, FALSE, <<"chunk">> \o artifact.chunk_id)

\* stage writing_artifacts, one iteration of write_files: the artifact is
\* uploaded and its line appended to the manifest, or the upload raises
WorkerWrites(k) ==
    /\ frames[k].stage = "writing_artifacts"
    /\ frames[k].written < Len(frames[k].artifacts)
    /\ LET artifact == frames[k].artifacts[frames[k].written + 1]
       IN  \/ /\ container' = container \cup {ArtifactBlob(artifact)}
              /\ manifest_file' = Append(manifest_file, artifact.chunk_id)
              /\ frames' = [frames EXCEPT ![k].written = @ + 1]
           \/ /\ frames' = [frames EXCEPT
                     ![k].stage = "returned",
                     ![k].result = FailedFile(file_paths[k], "writing_artifacts",
                                              "HttpResponseError")]
              /\ UNCHANGED <<container, manifest_file>>
    /\ UNCHANGED <<destination_path, counter, probes, batch_pc, file_paths, results,
                   analyses, appvars, enginevars>>

\* write_files returned: process_single_file returns success
WorkerReturns(k) ==
    /\ frames[k].stage = "writing_artifacts"
    /\ frames[k].written = Len(frames[k].artifacts)
    /\ frames' = [frames EXCEPT
           ![k].stage = "returned",
           ![k].result = [file_path |-> file_paths[k], status |-> "success",
                          chunks |-> Len(frames[k].artifacts)]]
    /\ UNCHANGED <<framevars, appvars, enginevars>>

\* faulty variant: the results are collected without waiting for the workers
JoinWorkers_DoesNotWait ==
    /\ batch_pc = "process_files_parallel"
    /\ results' = [k \in 1..Len(frames) |-> frames[k].result]
    /\ batch_pc' = "trigger_analysis"
    /\ UNCHANGED <<container, destination_path, counter, probes, manifest_file,
                   file_paths, frames, analyses, appvars, enginevars>>

\* process_files_parallel returns: the pool is shut down when every
\* invocation has returned, and map yields the results in submission order
JoinWorkers ==
    /\ batch_pc = "process_files_parallel"
    /\ \A k \in 1..Len(frames) : frames[k].stage = "returned"
    /\ results' = [k \in 1..Len(frames) |-> frames[k].result]
    /\ batch_pc' = "trigger_analysis"
    /\ UNCHANGED <<container, destination_path, counter, probes, manifest_file,
                   file_paths, frames, analyses, appvars, enginevars>>

\* process_batch: the consolidated analysis loads the manifest
TriggerAnalysis ==
    /\ batch_pc = "trigger_analysis"
    /\ analyses' = Append(analyses, manifest_file)
    /\ batch_pc' = "upload_manifest_folder"
    /\ UNCHANGED <<container, destination_path, counter, probes, manifest_file,
                   file_paths, frames, results, appvars, enginevars>>

\* process_batch: the manifest is uploaded to the manifests folder of the
\* destination (an upload that raises is logged), and the results are returned
UploadManifestFolder ==
    /\ batch_pc = "upload_manifest_folder"
    /\ \/ /\ manifest_file # <<>>
          /\ container' = container
                 \cup {BlobName(destination_path, TRUE, <<"manifest.jsonl", 0, 0>>)}
       \/ UNCHANGED container
    /\ batch_pc' = "returned"
    /\ UNCHANGED <<destination_path, counter, probes, manifest_file, file_paths,
                   frames, results, analyses, appvars, enginevars>>

NextBatch ==
    \/ CheckDestination
    \/ ProbeFolder
    \/ ListFiles
    \/ \E k \in 1..Len(frames) : StartWorker(k)
    \/ \E k \in 1..Len(frames) : WorkerReads(k)
    \/ \E k \in 1..Len(frames) : WorkerChunks(k)
    \/ \E k \in 1..Len(frames) : WorkerFilters(k)
    \/ \E k \in 1..Len(frames) : WorkerWrites(k)
    \/ \E k \in 1..Len(frames) : WorkerReturns(k)
    \/ JoinWorkers
    \/ TriggerAnalysis
    \/ UploadManifestFolder

SpecBatch == InitBatch /\ [][NextBatch]_vars

----------------------------------------------------------------------------

(* app.py: POST /process_batch and GET /failure_logs.  A batch id is a     *)
(* string, written as the sequence of its code points; the requests of one *)
(* application process are answered one at a time.                          *)

MaxRequests == 2

MaxClock == 1

\* str < str: lexicographic on the code points
RECURSIVE StrLess(_, _)
StrLess(a, b) ==
    IF b = <<>> THEN FALSE
    ELSE IF a = <<>> THEN TRUE
    ELSE IF Head(a) # Head(b) THEN Head(a) < Head(b)
    ELSE StrLess(Tail(a), Tail(b))

\* max(keys) of strings
MaxKey(keys) == CHOOSE m \in keys : \A k \in keys : k = m \/ StrLess(k, m)

\* "batch_"
BatchPrefix == <<98, 97, 116, 99, 104, 95>>

\* f"batch_{timestamp}": strftime("%Y%m%d_%H%M%S") grows with the time (one
\* digit stands for it)
GeneratedBatchId(t) == BatchPrefix \o <<48 + t>>

\* options["batch_id"] of a request: "a", "c", or absent / empty
RequestBatchIds == {<<>>, <<97>>, <<99>>}

AppPaths == <<"a.html", "b.html">>

\* what process_single_file returns for the k-th path
FileResults(k) ==
    {[file_path |-> AppPaths[k], status |-> "success", chunks |-> 1],
     FailedFile(AppPaths[k], "preparing_html_doc", "TypeError")}

\* what BatchProcessor.process_batch returns: the single result of an empty
\* source, or one result per file of a source of one or two files
AppResults ==
    {<<NoFilesResult>>} \cup
    UNION {{rs \in [1..n -> UNION {FileResults(k) : k \in 1..n}] :
               \A k \in 1..n : rs[k] \in FileResults(k)} : n \in DOMAIN AppPaths}

\* dict.get(key, default)
Get(r, key, default) == IF key \in DOMAIN r THEN r[key] ELSE default

RECURSIVE SumChunks(_)
SumChunks(rs) ==
    IF rs = <<>> THEN 0 ELSE Get(Head(rs), "chunks", 0) + SumChunks(Tail(rs))

IsSuccess(r) == r.status = "success"

IsFailure(r) == r.status = "failed"

\* faulty variant: any failure makes the batch "failed"
summary_status_FailedOnAnyFailure(successes, failures) ==
    IF failures = <<>> THEN "completed" ELSE "failed"

\* summary["status"]
summary_status(successes, failures) ==
    IF failures = <<>> THEN "completed"
    ELSE IF successes # <<>> THEN "partial_success"
    ELSE "failed"

\* the detail of one failure (messages, sizes and stack traces are left out)
FailureDetail(failure) ==
    [file_path |-> Get(failure, "file_path", "unknown"),
     error_type |-> Get(failure, "error_type", "unknown"),
     processing_stage |-> Get(failure, "processing_stage", "unknown")]

\* error_counts: the number of failures of each error type
ErrorCounts(failure_details) ==
    [e \in {failure_details[k].error_type : k \in DOMAIN failure_details} |->
        Cardinality({k \in DOMAIN failure_details :
                        failure_details[k].error_type = e})]

\* the summary of a batch and, with failures, its failure_summary
Summary(batch_id, rs) ==
    LET successes == SelectSeq(rs, IsSuccess)
        failures == SelectSeq(rs, IsFailure)
        failure_details == [k \in DOMAIN failures |-> FailureDetail(failures[k])]
        summary == [request |-> "POST /process_batch", code |-> 200,
                    batch_id |-> batch_id,
                    status |-> summary_status(successes, failures),
                    files_processed |-> Len(successes),
                    files_failed |-> Len(failures),
                    chunks_generated |-> SumChunks(successes)]
    IN  IF failures = <<>> THEN summary
        ELSE [request |-> summary.request, code |-> summary.code,
              batch_id |-> summary.batch_id, status |-> summary.status,
              files_processed |-> summary.files_processed,
              files_failed |-> summary.files_failed,
              chunks_generated |-> summary.chunks_generated,
              failure_summary |->
                  [total_failures |-> Len(failure_details),
                   common_errors |-> ErrorCounts(failure_details)]]

\* latest_failure_summary[batch_id] = {...} with failures, .clear() without
StoreFailures(batch_id, rs, timestamp_now) ==
    LET failures == SelectSeq(rs, IsFailure)
        failure_details == [k \in DOMAIN failures |-> FailureDetail(failures[k])]
        entry == [timestamp |-> timestamp_now,
                  total_failures |-> Len(failure_details),
                  failure_details |-> failure_details,
                  common_errors |-> ErrorCounts(failure_details)]
    IN  IF failures = <<>> THEN <<>>
        ELSE [k \in DOMAIN latest_failure_summary \cup {batch_id} |->
                 IF k = batch_id THEN entry ELSE latest_failure_summary[k]]

appframe == <<container, destination_path, counter, probes, manifest_file,
              batch_pc, file_paths, frames, analyses, enginevars>>

\* POST /process_batch: 400 without source or destination, 500 when
\* BatchProcessor raises, otherwise the summary of the results with 200; the
\* clock is read once per request
PostProcessBatch ==
    /\ Len(batches) < MaxRequests
    /\ \E source \in BOOLEAN, destination \in BOOLEAN, raises \in BOOLEAN,
          requested \in RequestBatchIds, rs \in AppResults,
          timestamp_now \in now..MaxClock :
            LET batch_id == IF requested = <<>>
                            THEN GeneratedBatchId(timestamp_now)
                            ELSE requested
            IN  IF ~(source /\ destination)
                THEN /\ response' = [request |-> "POST /process_batch",
                                     code |-> 400]
                     /\ now' = timestamp_now
                     /\ UNCHANGED <<latest_failure_summary, batches, results>>
                ELSE IF raises
                THEN /\ response' = [request |-> "POST /process_batch",
                                     code |-> 500]
                     /\ now' = timestamp_now
                     /\ UNCHANGED <<latest_failure_summary, batches, results>>
                ELSE /\ results' = rs
                     /\ response' = Summary(batch_id, rs)
                     /\ latest_failure_summary' =
                            StoreFailures(batch_id, rs, timestamp_now)
                     /\ batches' = Append(batches,
                            [batch_id |-> batch_id, results |-> rs])
                     /\ now' = timestamp_now
    /\ UNCHANGED appframe

\* GET /failure_logs
GetFailureLogs ==
    /\ response' =
        IF DOMAIN latest_failure_summary = {}
        THEN [request |-> "GET /failure_logs", code |-> 200, status |-> "ok"]
        ELSE LET most_recent_batch == MaxKey(DOMAIN latest_failure_summary)
             IN  [request |-> "GET /failure_logs", code |-> 200,
                  status |-> "degraded",
                  batch_id |-> most_recent_batch,
                  timestamp |-> latest_failure_summary[most_recent_batch].timestamp,
                  failures |-> latest_failure_summary[most_recent_batch]]
    /\ UNCHANGED <<latest_failure_summary, batches, results, now, appframe>>

InitApp ==
    /\ NoChunking
    /\ NoFile

NextApp == PostProcessBatch \/ GetFailureLogs

SpecApp == InitApp /\ [][NextApp]_vars

----------------------------------------------------------------------------

(* Vocabulary of the properties *)

StartsWith(t, p) == Len(t) >= Len(p) /\ SubSeq(t, 1, Len(p)) = p

\* the heading strategies are walking (or have walked) the sections
InSections == pc \in {"section", "scan", "done"} /\ documents # <<>>

H1Sections == strategy = CHUNKING_STRATEGY_H1_BASED /\ InSections

\* section s has been fully processed
Completed(s) == s < d \/ pc = "done"

\* indices of the chunks emitted for section s, and their number
ChunksOf(s) == {k \in 1..Len(chunks) : origin[k] = s}

IsFirstOf(k, s) == \A j \in ChunksOf(s) : k <= j

\* the heading line of a section as the specification words it
SpecHeadingLine(doc) ==
    IF doc.H1 # Absent /\ doc.H1 # "" THEN <<"#", doc.H1>>
    ELSE IF doc.H2 # Absent /\ doc.H2 # "" THEN <<"##", doc.H2>>
    ELSE <<>>

\* tokens of "<heading_line> (continued)\n\n"
SpecOverhead(doc) == count_tokens(SpecHeadingLine(doc) \o <<"(continued)", "nn">>)

----------------------------------------------------------------------------

PiecesWithinBudget ==
    \A s \in 1..Len(splits) : \A k \in 1..Len(splits[s]) :
        count_tokens(splits[s][k]) <= chunk_size - SpecOverhead(documents[s])

(* C1: in the H1 strategy, when every piece the splitter returned is within *)
(* the reduced budget chunk_size - continuation overhead, every emitted     *)
(* chunk's full text has token_count <= chunk_size.                         *)
C1_ChunksWithinChunkSize ==
    (H1Sections /\ PiecesWithinBudget)
        => \A k \in 1..Len(chunks) : count_tokens(chunks[k].text) <= chunk_size

----------------------------------------------------------------------------

(* C2: in the H1 strategy, for every overflowing section the first chunk    *)
(* emitted starts with the bare heading line and every later chunk with the *)
(* "(continued)" heading line, whatever merges happened.                    *)
C2_FirstBareLaterContinued ==
    H1Sections =>
        \A s \in 1..Len(documents) : \A k \in ChunksOf(s) :
            splits[s] # <<>> =>
                LET hl == SpecHeadingLine(documents[s])
                    t == chunks[k].text
                IN  IF IsFirstOf(k, s)
                    THEN /\ StartsWith(t, hl)
                         /\ ~StartsWith(t, hl \o <<"(continued)">>)
                    ELSE StartsWith(t, hl \o <<"(continued)", "nn">>)

----------------------------------------------------------------------------

(* C3: with chunk_size > 0 and chunk_overlap >= 0 no strategy ends in an    *)
(* error: the splitter is never built with a size that is non-positive or   *)
(* smaller than chunk_overlap.  Stated here for the configurations with     *)
(* chunk_overlap <= chunk_size only, which the splitter accepts on the      *)
(* whole document, so that an error can only come from a reduced budget.    *)
C3_NeverAnError ==
    (chunk_size > 0 /\ chunk_overlap >= 0 /\ chunk_overlap <= chunk_size)
        => pc # "error"

----------------------------------------------------------------------------

C4_StepMerges ==
    /\ i + 2 <= Len(sub_chunks)
    /\ chunks' = chunks
    /\ i' = i + 1
    /\ sub_chunks' = [sub_chunks EXCEPT
                        ![i + 2] = strip(sub_chunks[i + 1]) \o <<"nn">> \o strip(sub_chunks[i + 2])]

C4_ShouldMerge ==
    /\ i + 1 < Len(sub_chunks)
    /\ count_tokens(strip(sub_chunks[i + 1])) + count_tokens(sub_chunks[i + 2])
           + SpecOverhead(documents[d]) <= chunk_size
    /\ count_tokens(sub_chunks[i + 2]) < 50

(* C4: a step of the H1 scan merges the scanned sub-piece into its          *)
(* successor (no chunk emitted, successor replaced by the two texts joined  *)
(* by a blank line, in order) if and only if it is not the last, tokens(it) *)
(* + tokens(successor) + overhead <= chunk_size and tokens(successor) < 50. *)
C4_MergeIffCondition ==
    [][(pc = "scan" /\ strategy = CHUNKING_STRATEGY_H1_BASED)
          => (C4_StepMerges <=> C4_ShouldMerge)]_vars

C4_Witness ==
    /\ pc = "scan"
    /\ strategy = CHUNKING_STRATEGY_H1_BASED
    /\ merges[d] > 0
    /\ i + 1 < Len(sub_chunks)
    /\ ~C4_ShouldMerge

----------------------------------------------------------------------------

RECURSIVE Join(_, _)
Join(ts, sep) ==
    IF ts = <<>> THEN <<>>
    ELSE IF Len(ts) = 1 THEN ts[1]
    ELSE ts[1] \o sep \o Join(Tail(ts), sep)

RECURSIVE NonWhite(_)
NonWhite(t) ==
    IF t = <<>> THEN <<>>
    ELSE IF Head(t) \in Whitespace THEN NonWhite(Tail(t))
    ELSE <<Head(t)>> \o NonWhite(Tail(t))

RECURSIVE IsSubsequence(_, _)
IsSubsequence(a, b) ==
    IF a = <<>> THEN TRUE
    ELSE IF b = <<>> THEN FALSE
    ELSE IF Head(a) = Head(b) THEN IsSubsequence(Tail(a), Tail(b))
    ELSE IsSubsequence(a, Tail(b))

\* a chunk text without the heading line / continuation line put before it
Body(t, hl) ==
    IF StartsWith(t, hl \o <<"(continued)", "nn">>)
    THEN SubSeq(t, Len(hl) + 3, Len(t))
    ELSE IF hl # <<>> /\ StartsWith(t, hl \o <<"nn">>)
    THEN SubSeq(t, Len(hl) + 2, Len(t))
    ELSE t

RECURSIVE BodiesFrom(_, _, _)
BodiesFrom(k, s, hl) ==
    IF k > Len(chunks) THEN <<>>
    ELSE IF origin[k] = s THEN <<Body(chunks[k].text, hl)>> \o BodiesFrom(k + 1, s, hl)
    ELSE BodiesFrom(k + 1, s, hl)

\* the pieces of a section: what the splitter returned, trimmed, or the
\* section's own text when it was never split
PiecesOf(s, content) ==
    IF splits[s] = <<>> THEN <<content>>
    ELSE [k \in 1..Len(splits[s]) |-> strip(splits[s][k])]

Reconstructs(bodies, pieces, content) ==
    /\ Join(bodies, <<"nn">>) = Join(pieces, <<"nn">>)
    /\ IsSubsequence(NonWhite(content), NonWhite(Join(bodies, <<"nn">>)))
    /\ chunk_overlap = 0 => NonWhite(Join(bodies, <<"nn">>)) = NonWhite(content)

SectionHeadingLine(doc) ==
    IF strategy = CHUNKING_STRATEGY_H2_BASED
    THEN (IF doc.H2 # Absent /\ doc.H2 # "" THEN <<"##", doc.H2>>
          ELSE IF doc.H1 # Absent /\ doc.H1 # "" THEN <<"##", doc.H1>>
          ELSE <<>>)
    ELSE SpecHeadingLine(doc)

(* C5: for every strategy and every section, the chunks emitted for the     *)
(* section, without their heading / continuation lines, are the splitter's  *)
(* sub-pieces in order, none dropped or reordered (a section that fits is   *)
(* its own single piece), and so carry the section's content: all of its    *)
(* non-white-space text in order, and exactly it when chunk_overlap = 0.    *)
C5_ContentReconstructed ==
    pc = "done" =>
        IF documents = <<>>
        THEN splits # <<>> =>
                Reconstructs([k \in 1..Len(chunks) |-> chunks[k].text],
                             FilterNonEmpty([k \in 1..Len(splits[1]) |-> strip(splits[1][k])]),
                             strip(MarkdownText(markdown_content)))
        ELSE \A s \in 1..Len(documents) :
                LET content == strip(documents[s].page_content)
                IN  Reconstructs(BodiesFrom(1, s, SectionHeadingLine(documents[s])),
                                 PiecesOf(s, content), content)

C5_Witness ==
    /\ pc = "done"
    /\ strategy = CHUNKING_STRATEGY_H1_BASED
    /\ \E s \in 1..Len(documents) : merges[s] > 0 /\ Len(splits[s]) >= 3

----------------------------------------------------------------------------

(* C6: every emitted chunk's text is non-empty after trimming, and a        *)
(* section whose body is empty after stripping produces no chunk.           *)
C6_NoEmptyChunk ==
    /\ \A k \in 1..Len(chunks) : strip(chunks[k].text) # <<>>
    /\ \A s \in 1..Len(documents) :
          strip(documents[s].page_content) = <<>> => ChunksOf(s) = {}

----------------------------------------------------------------------------

NoHeadings(md) == \A k \in 1..Len(md) : md[k].kind = "text"

(* C7: for a document with no level-1 and no level-2 heading the H1         *)
(* strategy returns what the Fixed strategy returns for the same arguments: *)
(* the filtered, trimmed pieces of one split of the whole text with         *)
(* chunk_size and chunk_overlap, every heading empty (and it fails exactly  *)
(* when Fixed fails).                                                       *)
C7_H1WithoutHeadingsIsFixed ==
    (strategy = CHUNKING_STRATEGY_H1_BASED /\ NoHeadings(markdown_content) /\ pc # "start")
        => /\ pc \in {"done", "error"}
           /\ documents = <<>>
           /\ pc = "error" <=> (chunk_size <= 0 \/ chunk_overlap > chunk_size)
           /\ pc = "done" =>
                /\ chunks \in FixedSizeResults(markdown_content, chunk_size, chunk_overlap)
                /\ \A k \in 1..Len(chunks) : chunks[k].heading = ""

C7_Witness ==
    /\ strategy = CHUNKING_STRATEGY_H1_BASED
    /\ NoHeadings(markdown_content)
    /\ pc = "done"
    /\ Len(chunks) >= 2

----------------------------------------------------------------------------

Meaningful(secs, key) ==
    Len(secs) > 1 \/ (Len(secs) = 1 /\ secs[1][key] # Absent /\ secs[1][key] # "")

(* C8: the H1 strategy uses the level-1 sections whenever the level-1 split *)
(* is meaningful (more than one section, or one section with a non-empty    *)
(* label); the level-2 sections exactly when it is not and the level-2      *)
(* split is meaningful, each heading line rendered "## <heading>"; and      *)
(* Fixed only when neither is meaningful.                                   *)
C8_FallbackChain ==
    (strategy = CHUNKING_STRATEGY_H1_BASED /\ pc # "start") =>
        LET level1 == HeaderSplit(markdown_content, {"h1"})
            level2 == HeaderSplit(markdown_content, {"h2"})
        IN  IF Meaningful(level1, "H1")
            THEN /\ documents = level1
                 /\ InSections \/ pc = "error"
                 /\ \A k \in 1..Len(chunks) :
                        documents[origin[k]].H1 \notin {Absent, ""}
                            => StartsWith(chunks[k].text, <<"#", documents[origin[k]].H1>>)
            ELSE IF Meaningful(level2, "H2")
            THEN /\ documents = level2
                 /\ InSections \/ pc = "error"
                 /\ \A k \in 1..Len(chunks) :
                        documents[origin[k]].H2 \notin {Absent, ""}
                            => StartsWith(chunks[k].text, <<"##", documents[origin[k]].H2>>)
            ELSE /\ documents = <<>>
                 /\ pc \in {"done", "error"}
                 /\ pc = "done" =>
                        chunks \in FixedSizeResults(markdown_content, chunk_size, chunk_overlap)

C8_Witness ==
    /\ strategy = CHUNKING_STRATEGY_H1_BASED
    /\ pc = "done"
    /\ ~Meaningful(HeaderSplit(markdown_content, {"h1"}), "H1")
    /\ HeaderSplit(markdown_content, {"h1"}) # <<>>
    /\ \E k \in 1..Len(chunks) : StartsWith(chunks[k].text, <<"##", "B">>)
    /\ \E k \in 1..Len(chunks) : chunks[k].heading = ""

----------------------------------------------------------------------------

(* C9: in the H1 strategy a section whose heading line + blank line + body  *)
(* has token count <= chunk_size yields exactly one chunk, with that text   *)
(* (the body alone when it has no heading) and the section's heading label. *)
C9_FittingSectionOneChunk ==
    H1Sections =>
        \A s \in 1..Len(documents) :
            LET doc == documents[s]
                hl == SpecHeadingLine(doc)
                body == strip(doc.page_content)
                whole == IF hl = <<>> THEN body ELSE hl \o <<"nn">> \o body
                label == IF hl = <<>> THEN "" ELSE hl[2]
            IN  (Completed(s) /\ count_tokens(whole) <= chunk_size)
                    => /\ Cardinality(ChunksOf(s)) = 1
                       /\ \A k \in ChunksOf(s) :
                              chunks[k] = [text |-> whole, heading |-> label]

C9_Witness ==
    /\ H1Sections
    /\ pc = "done"
    /\ \E s \in 1..Len(documents) :
          /\ splits[s] = <<>>
          /\ documents[s].H1 = "A"
          /\ \E k \in ChunksOf(s) : Len(chunks[k].text) >= 5
    /\ \E s \in 1..Len(documents) : splits[s] # <<>>

----------------------------------------------------------------------------

(* C10: in the H1 strategy, for every overflowing section the number of     *)
(* chunks emitted equals the number of sub-pieces the splitter returned     *)
(* minus the number of merges, and is at least 1.                           *)
C10_ChunkCount ==
    H1Sections =>
        \A s \in 1..Len(documents) :
            (Completed(s) /\ splits[s] # <<>>)
                => /\ Cardinality(ChunksOf(s)) = Len(splits[s]) - merges[s]
                   /\ Cardinality(ChunksOf(s)) >= 1

C10_Witness ==
    /\ H1Sections
    /\ \E s \in 1..Len(documents) :
          Completed(s) /\ merges[s] >= 1 /\ Cardinality(ChunksOf(s)) >= 2

----------------------------------------------------------------------------

H2Sections == strategy = CHUNKING_STRATEGY_H2_BASED /\ InSections

\* the label of a section as the specification words it for the H2 strategy
SpecH2Label(doc) ==
    IF doc.H2 # Absent /\ doc.H2 # "" THEN doc.H2
    ELSE IF doc.H1 # Absent /\ doc.H1 # "" THEN doc.H1
    ELSE Absent

HasLabel(doc) == SpecH2Label(doc) # Absent

\* "## <heading>", or nothing for a section without a label
SpecH2HeadingLine(doc) ==
    IF HasLabel(doc) THEN <<"##", SpecH2Label(doc)>> ELSE <<>>

(* C11: in the H2 strategy the label of a section is its level-2 heading    *)
(* when it has one and otherwise its level-1 heading, and every chunk of    *)
(* the section starts with the heading line "## <label>", whichever level   *)
(* supplied the label.                                                      *)
C11_H2LabelAndLevel2Line ==
    H2Sections =>
        \A k \in 1..Len(chunks) :
            LET doc == documents[origin[k]]
            IN  HasLabel(doc) =>
                    /\ chunks[k].heading = SpecH2Label(doc)
                    /\ StartsWith(chunks[k].text, <<"##", SpecH2Label(doc)>>)

\* both cases in one run: a label taken from level 2 although level 1 is
\* there, and a level-1 label rendered "## A"
C11_Witness ==
    /\ H2Sections
    /\ pc = "done"
    /\ \E k \in 1..Len(chunks) :
           /\ documents[origin[k]].H1 = "A"
           /\ documents[origin[k]].H2 = "B"
           /\ StartsWith(chunks[k].text, <<"##", "B">>)
    /\ \E k \in 1..Len(chunks) :
           /\ documents[origin[k]].H1 = "A"
           /\ documents[origin[k]].H2 = Absent
           /\ StartsWith(chunks[k].text, <<"##", "A">>)

----------------------------------------------------------------------------

\* the chunk text the specification gives the idx-th piece (0-based) of an
\* overflowing section
SpecH2ChunkText(doc, piece, idx) ==
    IF idx = 0
    THEN (IF HasLabel(doc) THEN SpecH2HeadingLine(doc) \o <<"nn">> \o piece
          ELSE piece)
    ELSE SpecH2HeadingLine(doc) \o <<"(continued)", "nn">> \o piece

\* the chunks of section s, in the order of emission
RECURSIVE ChunkTextsFrom(_, _)
ChunkTextsFrom(k, s) ==
    IF k > Len(chunks) THEN <<>>
    ELSE IF origin[k] = s THEN <<chunks[k].text>> \o ChunkTextsFrom(k + 1, s)
    ELSE ChunkTextsFrom(k + 1, s)

\* some piece of section s is followed by a small piece that would fit
\* with it: the test under which the H1 strategy merges
H1MergeConditionHolds(s) ==
    \E idx \in 0..(Len(splits[s]) - 2) :
        MergeCondition(splits[s], idx,
                       count_tokens(SpecH2HeadingLine(documents[s])
                                        \o <<"(continued)", "nn">>))

(* C12: in the H2 strategy every overflowing section yields exactly one     *)
(* chunk per piece the splitter returned, in order, the first with the bare *)
(* heading line and every later one with the "(continued)" heading line;    *)
(* no two pieces are merged, also when the merge test of the H1 strategy    *)
(* holds.                                                                   *)
C12_OneChunkPerPiece ==
    H2Sections =>
        \A s \in 1..Len(documents) :
            (Completed(s) /\ splits[s] # <<>>) =>
                /\ merges[s] = 0
                /\ ChunkTextsFrom(1, s) =
                       [k \in 1..Len(splits[s]) |->
                           SpecH2ChunkText(documents[s], strip(splits[s][k]), k - 1)]

C12_Witness ==
    /\ H2Sections
    /\ pc = "done"
    /\ \E s \in 1..Len(documents) :
           /\ Len(splits[s]) >= 3
           /\ H1MergeConditionHolds(s)
           /\ Cardinality(ChunksOf(s)) = Len(splits[s])

----------------------------------------------------------------------------

\* chunk_size - tokens(heading_line) - 50
SpecH2Budget(doc) == chunk_size - count_tokens(SpecH2HeadingLine(doc)) - 50

H2PiecesWithinBudget ==
    \A s \in 1..Len(splits) : \A k \in 1..Len(splits[s]) :
        count_tokens(splits[s][k]) <= SpecH2Budget(documents[s])

(* C13: in the H2 strategy the pieces of an overflowing section are what    *)
(* the splitter returns for the budget chunk_size - tokens(heading_line)    *)
(* - 50, and when every piece is within that budget every emitted chunk has *)
(* token_count <= chunk_size.                                               *)
C13_H2BudgetAndChunkSize ==
    H2Sections =>
        /\ \A s \in 1..Len(splits) :
               splits[s] # <<>> =>
                   /\ ~SplitterRejects(SpecH2Budget(documents[s]), chunk_overlap)
                   /\ splits[s] \in SplitText(SectionText(documents[s]),
                                              SpecH2Budget(documents[s]), chunk_overlap)
        /\ H2PiecesWithinBudget =>
               \A k \in 1..Len(chunks) : count_tokens(chunks[k].text) <= chunk_size

\* an overflowing section cut into several pieces, all within the budget
C13_Witness ==
    /\ H2Sections
    /\ pc = "done"
    /\ H2PiecesWithinBudget
    /\ \E s \in 1..Len(splits) :
           /\ Len(splits[s]) >= 2
           /\ HasLabel(documents[s])
           /\ Cardinality(ChunksOf(s)) = Len(splits[s])

----------------------------------------------------------------------------

(* C15: clean_chunk_text is idempotent: cleaning the cleaned text again     *)
(* gives the cleaned text, for every text, also with control characters     *)
(* between spaces, with tabs and with runs of repeated characters.          *)
C15_CleanIdempotent ==
    Len(cleanings) >= 3 => cleanings[3] = cleanings[2]

----------------------------------------------------------------------------

Filtered == processing_stage = "filtering_chunks"

\* the filter kept the chunk of position pos
KeptAt(pos) == \E j \in 1..Len(filtered_chunks) : filtered_chunks[j].position = pos

(* C16: the quality filter drops every chunk that has no code-fence or      *)
(* pipe-row marker and whose text contains an alphanumeric character        *)
(* repeated 6 or more times consecutively.                                  *)
C16_RepeatedAlnumDropped ==
    Filtered =>
        \A k \in 1..Len(chunks) :
            (~HasMarker(chunks[k].text) /\ HasAlnumRun(chunks[k].text))
                => ~KeptAt(k - 1)

----------------------------------------------------------------------------

(* C17: a chunk whose text contains a code-fence marker or a pipe-delimited *)
(* table row is never rejected by the gibberish classifier: it is kept      *)
(* whenever its normalized text is non-empty.                               *)
C17_MarkedChunkKept ==
    Filtered =>
        \A k \in 1..Len(chunks) :
            (HasMarker(chunks[k].text) /\ clean_chunk_text(chunks[k].text) # <<>>)
                => KeptAt(k - 1)

----------------------------------------------------------------------------

Normalized(k) == clean_chunk_text(chunks[k].text)

\* the decision of the filter on the chunk of index k
Acceptable(k) == Normalized(k) # <<>> /\ ~is_gibberish(Normalized(k))

\* the acceptable chunks from index k on, in order, with their normalized text
RECURSIVE AcceptableFrom(_)
AcceptableFrom(k) ==
    IF k > Len(chunks) THEN <<>>
    ELSE (IF Acceptable(k)
          THEN <<[url |-> UrlOf(file_path), chunk |-> Normalized(k),
                  position |-> k - 1]>>
          ELSE <<>>) \o AcceptableFrom(k + 1)

\* the filter run on the chunk of index k alone
Alone(k) ==
    apply_quality_filters(
        <<[url |-> UrlOf(file_path), chunk |-> chunks[k].text, position |-> k - 1]>>)

(* C18: apply_quality_filters returns exactly the chunks whose normalized   *)
(* text is non-empty and not gibberish, in their original order, each with  *)
(* its text replaced by the normalized text and its url and position        *)
(* unchanged; the decision for a chunk is the one taken on that chunk       *)
(* alone.                                                                   *)
C18_FilterExact ==
    Filtered =>
        /\ filtered_chunks = AcceptableFrom(1)
        /\ \A k \in 1..Len(chunks) : KeptAt(k - 1) <=> Alone(k) # <<>>

\* three chunks: one dropped between two that are kept, one of them with a
\* text the normalization changed
C18_Witness ==
    /\ Filtered
    /\ Len(chunks) = 3
    /\ Len(filtered_chunks) = 2
    /\ ~KeptAt(1)
    /\ filtered_chunks[1].chunk # chunks[1].text

----------------------------------------------------------------------------

\* the requested strategy name is none of the three recognised names
Unrecognised == RequestedStrategy \notin valid_strategies

\* C14: for a strategy name that is not exactly one of the three recognised
\* names, chunking produces an output of the Fixed strategy for the same
\* document and sizes, get_html_chunks raises only what the Fixed strategy
\* raises, and process_single_file reports failure only for a file it could
\* not read, an error of the Fixed strategy's chunking, or a failed upload:
\* the name itself is never a failure.
C14_UnrecognisedFallsBackToFixed ==
    Unrecognised =>
        /\ pc \in {"done", "returned"} =>
               chunks \in FixedSizeResults(markdown_content, chunk_size, chunk_overlap)
        /\ pc = "error" => SplitterRejects(chunk_size, chunk_overlap)
        /\ result.status = "failed" =>
               \/ /\ result.processing_stage = "preparing_html_doc"
                  /\ html_bytes = NoneValue
               \/ /\ result.processing_stage = "chunking"
                  /\ \/ pc = "error" /\ SplitterRejects(chunk_size, chunk_overlap)
                     \/ pc = "decode_error"
               \/ /\ result.processing_stage = "writing_artifacts"
                  /\ Len(uploaded) < Len(artifacts)
        /\ (processing_stage = "writing_artifacts" /\ uploaded = artifacts) =>
               /\ result.status = "success"
               /\ result.chunks = Len(filtered_chunks)

\* the differently-cased name 'Fixed_Size' of the example request: the
\* document is chunked by the Fixed strategy and reported as success
C14_Witness ==
    /\ options.chunking_strategy = "Fixed_Size"
    /\ strategy = CHUNKING_STRATEGY_FIXED
    /\ result.status = "success"
    /\ result.chunks >= 1
    /\ chunks \in FixedSizeResults(markdown_content, chunk_size, chunk_overlap)

----------------------------------------------------------------------------

\* C19: for every byte sequence given as a document's HTML, decoding never
\* fails: get_html_chunks never raises a decoding error, and no document is
\* reported failed with a decoding error.
C19_DecodingNeverFails ==
    /\ pc # "decode_error"
    /\ html_content.type \in {"NoneType", "str"}
    /\ result.status = "failed" => result.error_type # "UnicodeDecodeError"

----------------------------------------------------------------------------

\* C20: the chunks that reach artifact generation carry the positions
\* 0, 1, ..., m-1 in output order, m being the number of surviving chunks.
C20_SequentialPositions ==
    processing_stage \in {"extracting_metadata", "generating_artifacts",
                          "writing_artifacts"} =>
        \A k \in 1..Len(filtered_chunks) : filtered_chunks[k].position = k - 1

----------------------------------------------------------------------------

\* C23: process_single_file reports a failure with the stage in which it
\* occurred, 'reading_file' whenever reading the source file failed, and
\* reports success only after the write stage completed.
C23_FailureStageReported ==
    /\ (result.status = "failed" /\ html_bytes = NoneValue) =>
           result.processing_stage = "reading_file"
    /\ (result.status = "failed" /\ html_bytes # NoneValue) =>
           result.processing_stage \in {"chunking", "writing_artifacts"}
    /\ result.status = "success" =>
           processing_stage = "writing_artifacts" /\ uploaded = artifacts

----------------------------------------------------------------------------

\* the folders base_1 .. base_n were probed in this order, all but the last
\* were answered to exist, and every answer is one folder_exists gives
ProbedInOrder ==
    /\ \A j \in 1..Len(probes) : probes[j] \in folder_exists(j)
    /\ \A j \in 1..(Len(probes) - 1) : probes[j]

NewFolderReturned == batch_pc = "list_files" /\ probes # <<>>

C25_Probing ==
    /\ batch_pc = "generate_new_folder_name" =>
           /\ ProbedInOrder
           /\ Len(probes) = counter - 1
           /\ \A j \in 1..Len(probes) : probes[j]
    /\ NewFolderReturned =>
           /\ ProbedInOrder
           /\ ~probes[Len(probes)]
           /\ destination_path = Len(probes)

\* C25: generate_new_folder_name probes base_1, base_2, ... in order and
\* returns base_k for the smallest k >= 1 for which folder_exists answered
\* false; such a k existing, it terminates.
C25_SmallestFreeFolder ==
    /\ []C25_Probing
    /\ (batch_pc = "generate_new_folder_name") ~> NewFolderReturned

\* base_1 and base_2 exist, base_3 is returned
C25_Witness ==
    /\ NewFolderReturned
    /\ destination_path = 3
    /\ \A k \in 0..2 : BlobName(k, FALSE, <<"old", 0, 0>>) \in container

----------------------------------------------------------------------------

\* the chunk lists (chunking plus quality filtering) of a document that is
\* processed alone
AloneResults(doc, path) ==
    {apply_quality_filters(PositionedChunks(cs, path)) :
        cs \in FixedSizeResults(doc, chunk_size, chunk_overlap)}

\* invocation k has computed its filtered chunk list
HasFiltered(k) ==
    \/ frames[k].stage = "writing_artifacts"
    \/ /\ frames[k].stage = "returned"
       /\ \/ frames[k].result.status = "success"
          \/ frames[k].result.processing_stage = "writing_artifacts"

\* C21: under any interleaving of the workers of a pool, the chunk list an
\* invocation computes for its document (chunking plus quality filtering) is
\* a list the document gives when it is processed alone: every step of any
\* worker that gives invocation k its filtered list, or changes that list or
\* its document, leaves it with such a list.
C21_Reentrant ==
    [][\A k \in 1..Len(frames') :
          (/\ HasFiltered(k)'
           /\ \/ k > Len(frames)
              \/ ~HasFiltered(k)
              \/ frames'[k].filtered_chunks # frames[k].filtered_chunks
              \/ frames'[k].markdown_content # frames[k].markdown_content)
          => frames'[k].filtered_chunks
                 \in AloneResults(frames'[k].markdown_content, file_paths'[k])]_vars

\* two invocations in progress at the same time on different documents, the
\* later one having chunked before the earlier one filtered
C21_Witness ==
    /\ Len(frames) >= 2
    /\ frames[1].stage = "writing_artifacts"
    /\ frames[2].stage = "writing_artifacts"
    /\ frames[1].markdown_content # frames[2].markdown_content
    /\ Len(frames[1].filtered_chunks) = 2
    /\ Len(frames[2].filtered_chunks) = 1
    /\ frames[2].filtered_chunks[1].position = 1

----------------------------------------------------------------------------

\* process_files_parallel has returned
PoolReturned ==
    /\ batch_pc \in {"trigger_analysis", "upload_manifest_folder", "returned"}
    /\ file_paths # <<>>

\* one invocation per path while the pool runs, never more than max_workers
\* of them in progress, and on return one result per path in the order of
\* the paths
OncePerPathInOrder ==
    /\ InProgress <= options.max_workers
    /\ batch_pc = "process_files_parallel" => Len(frames) = Len(file_paths)
    /\ PoolReturned =>
           /\ Len(results) = Len(file_paths)
           /\ \A k \in 1..Len(file_paths) :
                  /\ frames[k].stage = "returned"
                  /\ results[k] = frames[k].result
                  /\ results[k].file_path = file_paths[k]

\* C22 as stated: process_files_parallel invokes process_single_file exactly
\* once per input path, with at most max_workers invocations in progress, and
\* returns one result per path in the order of the paths - for every
\* max_workers.
C22_OncePerPathAnyPool == OncePerPathInOrder /\ batch_pc # "raised"

\* C22, amended: this holds for max_workers >= 1; for max_workers <= 0 the
\* pool cannot be built, process_files_parallel raises ValueError and
\* process_single_file is not invoked at all.
C22_OncePerPathInOrder ==
    /\ OncePerPathInOrder
    /\ batch_pc = "raised" => (options.max_workers <= 0 /\ frames = <<>>)
    /\ options.max_workers >= 1 => batch_pc # "raised"

\* two files: the second invocation wrote its artifact before the first one
\* wrote its last, and the results are in the order of the paths
C22_Witness ==
    /\ PoolReturned
    /\ Len(file_paths) = 2
    /\ manifest_file # <<>>
    /\ manifest_file[1] = <<2, 0>>
    /\ manifest_file[Len(manifest_file)][1] = 1
    /\ results[1].file_path = 1
    /\ results[2].file_path = 2

----------------------------------------------------------------------------

ManifestBlob == BlobName(destination_path, TRUE, <<"manifest.jsonl", 0, 0>>)

\* the analysis is started at most once and only when every invocation has
\* returned, the manifest is not appended to once the analysis has begun, and
\* the manifests folder is uploaded only after the analysis
AnalysisAfterWorkers ==
    /\ Len(analyses) <= 1
    /\ analyses # <<>> =>
           /\ \A k \in 1..Len(frames) : frames[k].stage = "returned"
           /\ manifest_file = analyses[1]
    /\ (batch_pc = "upload_manifest_folder" \/ ManifestBlob \in container) =>
           Len(analyses) = 1

\* C26 as stated: in process_batch the analysis is started exactly once, only
\* after every process_single_file invocation has returned; the manifests
\* upload starts only after the analysis; no worker appends to the manifest
\* after the analysis has begun.
C26_AnalysisExactlyOnce ==
    /\ AnalysisAfterWorkers
    /\ batch_pc # "raised"
    /\ batch_pc = "returned" => Len(analyses) = 1

\* C26, amended: the order holds, and the analysis is started exactly once
\* when process_files_parallel returned; process_batch does not start it when
\* the source has no files (it returns early) or when the pool cannot be built
\* (it raises).
C26_AnalysisAfterWorkers ==
    /\ AnalysisAfterWorkers
    /\ batch_pc = "returned" =>
           Len(analyses) = (IF file_paths # <<>> THEN 1 ELSE 0)
    /\ batch_pc = "raised" => (analyses = <<>> /\ options.max_workers <= 0)

\* two workers have appended to the manifest, the analysis has loaded both
\* lines and the manifest is uploaded
C26_Witness ==
    /\ batch_pc = "returned"
    /\ Len(frames) = 2
    /\ frames[1].written >= 1
    /\ frames[2].written >= 1
    /\ Len(analyses) = 1
    /\ Len(analyses[1]) >= 2
    /\ ManifestBlob \in container

----------------------------------------------------------------------------

\* the artifacts of source file k in the destination folder of the batch
ArtifactsOf(k) ==
    {b \in container :
        b.folder = destination_path /\ ~b.manifests
            /\ b.name[1] = "chunk" /\ b.name[2] = file_paths[k]}

RECURSIVE SuccessChunks(_)
SuccessChunks(rs) ==
    IF rs = <<>> THEN 0
    ELSE (IF Head(rs).status = "success" THEN Head(rs).chunks ELSE 0)
             + SuccessChunks(Tail(rs))

\* the artifacts the batch has written to its destination folder
BatchArtifacts ==
    {b \in container :
        b.folder = destination_path /\ ~b.manifests /\ b.name[1] = "chunk"}

\* C27: a document whose result is 'failed' has contributed no artifact to
\* the destination container and no line to the manifest; the artifacts
\* present after the batch are those of the documents reported 'success',
\* and the chunks of the success results add up to their number.
C27_FailedWroteNothing ==
    /\ \A k \in 1..Len(frames) :
           (frames[k].stage = "returned" /\ frames[k].result.status = "failed") =>
               (ArtifactsOf(k) = {} /\ frames[k].written = 0)
    /\ PoolReturned => SuccessChunks(results) = Cardinality(BatchArtifacts)

----------------------------------------------------------------------------

\* the artifacts the invocations of this run have written
RECURSIVE TotalWritten(_)
TotalWritten(fs) ==
    IF fs = <<>> THEN 0 ELSE Head(fs).written + TotalWritten(Tail(fs))

\* C29: after process_batch has completed for its batch_id, the local
\* manifest holds exactly one line per artifact written during this run and
\* nothing else - also when an earlier batch ran with the same batch_id - and
\* the analysis has loaded exactly these lines.
C29_ManifestOfThisRun ==
    (batch_pc = "returned" /\ PoolReturned) =>
        /\ Len(manifest_file) = TotalWritten(frames)
        /\ \A n \in 1..Len(manifest_file) :
               \E k \in 1..Len(frames) :
                   /\ manifest_file[n][1] = file_paths[k]
                   /\ \E j \in 1..frames[k].written :
                          manifest_file[n] = frames[k].artifacts[j].chunk_id
        /\ analyses = <<manifest_file>>

----------------------------------------------------------------------------

OldBlob(k) == BlobName(k, FALSE, <<"old", 0, 0>>)

\* C30: if the destination folder holds blobs when process_batch starts,
\* every artifact of the batch is written under a newly generated folder that
\* held no blob at that time, and no blob is created under the original
\* destination folder - also when the storage existence check itself fails.
C30_ExistingDestinationUntouched ==
    OldBlob(0) \in container =>
        /\ batch_pc \in {"process_files_parallel", "trigger_analysis",
                         "upload_manifest_folder"} =>
               (destination_path # 0 /\ OldBlob(destination_path) \notin container)
        /\ \A b \in container :
               b.name[1] = "chunk" =>
                   (b.folder # 0 /\ ~b.manifests /\ OldBlob(b.folder) \notin container)


\* the last exchange was a POST /process_batch / a GET /failure_logs
PostAnswered == Get(response, "request", None) = "POST /process_batch"

LogsAnswered == Get(response, "request", None) = "GET /failure_logs"

SuccessResults == {k \in DOMAIN results : results[k].status = "success"}

FailedResults == {k \in DOMAIN results : results[k].status = "failed"}

\* the summary of a 200 answer agrees with the per-file results
SummaryOfResults ==
    LET ns == Cardinality(SuccessResults)
        nf == Cardinality(FailedResults)
    IN  /\ (response.status = "completed") <=> (nf = 0)
        /\ (response.status = "partial_success") <=> (ns >= 1 /\ nf >= 1)
        /\ (response.status = "failed") <=> (nf >= 1 /\ ns = 0)
        /\ response.files_processed = ns
        /\ response.files_failed = nf
        /\ ns + nf = Len(results)
        /\ ("failure_summary" \in DOMAIN response) <=> (nf >= 1)
        /\ nf >= 1 => response.failure_summary.total_failures = nf

\* C24 as stated: a POST /process_batch with source and destination present
\* (any answer but 400) is answered 200, with the status 'completed',
\* 'partial_success' or 'failed' that the per-file results give, the counts
\* of the success and failed results, and total_failures = files_failed
C24_Answers200WithSummary ==
    (PostAnswered /\ response.code # 400) =>
        (response.code = 200 /\ SummaryOfResults)

\* C24, amended: such a request is answered 200 when process_batch returns
\* its results, and then status, counts and total_failures are those the
\* results give; it is answered 500 when the processor raises
C24_SummaryOfResults ==
    (PostAnswered /\ response.code # 400) =>
        /\ response.code \in {200, 500}
        /\ response.code = 200 => SummaryOfResults

\* a batch of one success and one failure has been answered
C24_Witness ==
    /\ PostAnswered
    /\ response.code = 200
    /\ response.status = "partial_success"
    /\ SuccessResults # {}
    /\ FailedResults # {}

LastBatch == batches[Len(batches)]

HadFailures(batch) ==
    \E k \in DOMAIN batch.results : batch.results[k].status = "failed"

\* C28: GET /failure_logs reports 'ok' when the most recently completed batch
\* had no failures, and otherwise 'degraded' with the batch_id and the
\* failure details of that batch, the most recent one that had failures
C28_MostRecentFailures ==
    (LogsAnswered /\ batches # <<>>) =>
        IF ~HadFailures(LastBatch) THEN response.status = "ok"
        ELSE /\ response.status = "degraded"
             /\ response.batch_id = LastBatch.batch_id
             /\ response.failures.failure_details =
                    [k \in DOMAIN SelectSeq(LastBatch.results, IsFailure) |->
                        FailureDetail(SelectSeq(LastBatch.results, IsFailure)[k])]

====
